---- MODULE Spec2Model ----
(***************************************************************************)
(* SchoolSense procurement audit: the receipt intake (Upload.tsx), the     *)
(* duplicate scorer (Upload.tsx, duplicateMatches), the application state  *)
(* and persistence glue (App: handleUpdatePurchase, handleUploadComplete,  *)
(* the purchases listener) and the review handlers (Review: handleAction,  *)
(* handleReject).                                                          *)
(*                                                                         *)
(* Encoding of JavaScript values:                                          *)
(*   - a value that may be undefined or null is a sequence of length <= 1: *)
(*     <<>> is undefined/null, <<v>> is the defined value v;               *)
(*   - money is an integer number of cents, so "x * 0.01" is exact;        *)
(*   - a date is an integer number of half days since an epoch, so that a  *)
(*     difference in days can have a fractional part and Math.round acts;  *)
(*   - a vendor name and a notes text are sequences of one-character       *)
(*     strings.                                                            *)
(* Specifications: ScorerSpec (one evaluation of duplicateMatches for      *)
(* every candidate and record list), ReviewSpec (login, listener and the   *)
(* review handlers), IntakeSpec (the submission path of an intake),        *)
(* EnrichSpec (handleProcess with its two enrichment streams), ConfirmSpec *)
(* (Confirm next to the enrichment streams), PersistSpec (updateDoc,       *)
(* addDoc and the listener side by side), AmountSpec (the submission path *)
(* over extractions of every amount), SavingsSpec (the enrichment over     *)
(* receipts of two amounts), WriterSpec (every path that touches a record) *)
(* and QueueSpec (the reviewer working through the review queue).          *)
(* A handler whose control is disabled in the user interface is still      *)
(* modelled where its own early return makes the call change nothing; the  *)
(* branch of a handler that acts is guarded by the control being enabled.  *)
(***************************************************************************)
EXTENDS Integers, Sequences, FiniteSets, TLC

VARIABLES
    \* App (src/unnamed/part_002)
    currentUser,            \* useState<User | null>
    purchases,              \* useState<PurchaseDocument[]>
    usingMockData,          \* useState(false)
    activeTab,              \* useState('dashboard')
    reviewingId,            \* useState<string | null>
    isAdding,               \* useState(false)
    \* Persistence Adapter (Firestore)
    store,                  \* the documents of the purchases collection
    updateCalls,            \* updateDoc calls awaited by handleUpdatePurchase
    \* Review (src/unnamed/part_003)
    isResolving,            \* useState(false)
    showRejectModal,        \* useState(false)
    selectedRejectionFlags, \* useState<FlagType[]>([])
    rejectionNotes,         \* useState('')
    \* Upload (src/components/Upload.tsx)
    result,                 \* useState<ExtractionResult | null>
    duplicateMatches,       \* the useMemo value of duplicateMatches
    scored,                 \* score and reasons of each forEach iteration
    rendered,               \* the memo has been computed for its inputs
    preview,                \* useState<string | null>
    fileReading,            \* a FileReader started by handleFileChange is reading
    isProcessing,           \* useState(false); true while analyzeReceipt is awaited
    showDuplicateWarning,   \* useState(false)
    priceIntelligence,      \* useState<{...} | null>
    priceSearching,         \* useState(false)
    searchProgress,         \* useState<SearchProgressUpdate | null>
    commitmentData,         \* useState<{...} | null>
    priceStreams,           \* price enrichment continuations of handleProcess
    commitmentStreams,      \* extractCommitments calls awaited by handleProcess
    \* handleUploadComplete (src/unnamed/part_002)
    uploadCalls,            \* uploadReceiptImage calls awaited
    addCalls,               \* addDoc calls awaited
    now,                    \* Date.now(), in submissions
    \* history
    intake,                 \* number of extraction results staged so far
    confirmed,              \* the intake of every onComplete invocation
    createRecords,          \* per intake, the number of addDoc calls issued
    lastEvent               \* the handler a claim is about, if it ran in the last step

appVars == <<currentUser, purchases, usingMockData, activeTab, reviewingId, isAdding>>
storeVars == <<store, updateCalls>>
reviewVars == <<isResolving, showRejectModal, selectedRejectionFlags, rejectionNotes>>
memoVars == <<duplicateMatches, scored, rendered>>
scorerVars == <<result, duplicateMatches, scored, rendered>>
uploadVars == <<preview, fileReading, isProcessing, showDuplicateWarning,
                priceIntelligence, priceSearching, searchProgress, commitmentData,
                priceStreams, commitmentStreams>>
callVars == <<uploadCalls, addCalls, now>>
historyVars == <<intake, confirmed, createRecords>>
\* everything outside App, the store and Review
uploadSide == <<scorerVars, uploadVars, callVars, historyVars>>

vars == <<currentUser, purchases, usingMockData, activeTab, reviewingId, isAdding,
          store, updateCalls,
          isResolving, showRejectModal, selectedRejectionFlags, rejectionNotes,
          result, duplicateMatches, scored, rendered,
          preview, fileReading, isProcessing, showDuplicateWarning,
          priceIntelligence, priceSearching, searchProgress, commitmentData,
          priceStreams, commitmentStreams,
          uploadCalls, addCalls, now,
          intake, confirmed, createRecords, lastEvent>>

----------------------------------------------------------------------------
(* JavaScript values *)

Undefined == <<>>
Null == <<>>
Def(v) == <<v>>
Val(o) == o[1]
IsDefined(o) == o # <<>>

Abs(x) == IF x < 0 THEN -x ELSE x
Range(s) == {s[i] : i \in DOMAIN s}

\* Math.round of a number of half days expressed in days: n/2 rounded to the
\* nearest integer, a tie (x.5) going up.
RoundHalfDays(n) == (n + 1) \div 2

LowerChar(c) ==
    CASE c = "S" -> "s"
      [] c = "T" -> "t"
      [] c = "A" -> "a"
      [] OTHER -> c

\* String.prototype.toLowerCase
ToLowerCase(s) == [i \in DOMAIN s |-> LowerChar(s[i])]

----------------------------------------------------------------------------
(* Types: src/types.ts, src/unnamed/part_001 (DEMO_ACCOUNTS) *)

ReviewStatuses == {"PENDING", "VALIDATED", "RESOLVED", "FLAGGED", "REJECTED"}

Reviewer == [name |-> "Sarah Reviewer", role |-> "REVIEWER"]
Submitter == [name |-> "Mark Submitter", role |-> "SUBMITTER"]
Viewer == [name |-> "Dr. Thompson", role |-> "VIEWER"]
Users == {Reviewer, Submitter, Viewer}

DocId(i) == "p" \o ToString(i)

\* a PurchaseDocument; the fields a partial update can carry hold a value that
\* may be undefined
NewDocument(id, vendor, amount, date, flags, status) ==
    [id |-> id, vendor |-> vendor, amount |-> amount, date |-> date,
     flags |-> flags, status |-> Def(status), fileUrl |-> "",
     rejectionFlags |-> Undefined, rejectionNotes |-> Undefined,
     rejectedBy |-> Undefined, rejectedAt |-> Undefined]

\* the initial state of the Review component
ReviewInitial ==
    /\ isResolving = FALSE
    /\ showRejectModal = FALSE
    /\ selectedRejectionFlags = <<>>
    /\ rejectionNotes = <<>>

\* the initial state of the Upload component, result apart
UploadInitial ==
    /\ preview = Null
    /\ fileReading = FALSE
    /\ isProcessing = FALSE
    /\ showDuplicateWarning = FALSE
    /\ priceIntelligence = Null
    /\ priceSearching = FALSE
    /\ searchProgress = Null
    /\ commitmentData = Null
    /\ priceStreams = <<>>
    /\ commitmentStreams = <<>>

\* no handleUploadComplete has been invoked
NoSubmission ==
    /\ uploadCalls = <<>>
    /\ addCalls = <<>>
    /\ now = 1
    /\ intake = 0
    /\ confirmed = <<>>
    /\ createRecords = [n \in {} |-> 0]

----------------------------------------------------------------------------
(* Duplicate scorer: Upload.tsx, duplicateMatches *)

DUPLICATE_WINDOW_DAYS == 60
VendorWeight == 30
AmountWeight == 40
DateWeight == 30
ScoreThreshold == 60
MinReasons == 2

VendorMatches(purchase, res) ==
    ToLowerCase(purchase.vendor) = ToLowerCase(res.vendor)

\* amountDiff <= amountThreshold with amountThreshold = result.amount * 0.01,
\* both sides multiplied by 100.
AmountMatches(purchase, res) ==
    Abs(purchase.amount - res.amount) * 100 <= res.amount

\* daysDiff in half days
HalfDaysDiff(purchase, res) == Abs(purchase.date - res.date)

DateMatches(purchase, res) ==
    HalfDaysDiff(purchase, res) <= 2 * DUPLICATE_WINDOW_DAYS

WithinReason(purchase, res) ==
    "Within " \o ToString(RoundHalfDays(HalfDaysDiff(purchase, res))) \o " days"

Reasons(purchase, res) ==
    (IF VendorMatches(purchase, res) THEN <<"Same vendor">> ELSE <<>>)
    \o (IF AmountMatches(purchase, res) THEN <<"Same amount">> ELSE <<>>)
    \o (IF DateMatches(purchase, res) THEN <<WithinReason(purchase, res)>> ELSE <<>>)

\* variant: the vendor check weighs 25
Score_LightVendor(purchase, res) ==
    (IF VendorMatches(purchase, res) THEN 25 ELSE 0)
    + (IF AmountMatches(purchase, res) THEN AmountWeight ELSE 0)
    + (IF DateMatches(purchase, res) THEN DateWeight ELSE 0)

Score(purchase, res) ==
    (IF VendorMatches(purchase, res) THEN VendorWeight ELSE 0)
    + (IF AmountMatches(purchase, res) THEN AmountWeight ELSE 0)
    + (IF DateMatches(purchase, res) THEN DateWeight ELSE 0)

\* variant: a single strong signal (the amount alone) passes
IsPotentialDuplicate_SingleSignal(score, reasons) ==
    score >= AmountWeight /\ Len(reasons) >= 1

IsPotentialDuplicate(score, reasons) ==
    score >= ScoreThreshold /\ Len(reasons) >= MinReasons

MatchEntry(purchase, res) ==
    [purchase |-> purchase,
     score |-> Score(purchase, res),
     reasons |-> Reasons(purchase, res)]

\* purchases.forEach(...): the entries pushed, in list order
RECURSIVE CollectMatches(_, _)
CollectMatches(existing, res) ==
    IF existing = <<>> THEN <<>>
    ELSE LET e == MatchEntry(Head(existing), res)
         IN  (IF IsPotentialDuplicate(e.score, e.reasons) THEN <<e>> ELSE <<>>)
             \o CollectMatches(Tail(existing), res)

\* variant: an entry also goes before an entry of the same score
ComesBefore_OrEqual(a, b) == b.score - a.score <= 0

\* the comparator (a, b) => b.score - a.score is negative when a goes first
ComesBefore(a, b) == b.score - a.score < 0

\* insert e into the sorted sequence s behind every entry it does not
\* strictly precede (Array.prototype.sort is stable)
RECURSIVE InsertSorted(_, _)
InsertSorted(s, e) ==
    IF s = <<>> THEN <<e>>
    ELSE IF ComesBefore(e, Head(s)) THEN <<e>> \o s
    ELSE <<Head(s)>> \o InsertSorted(Tail(s), e)

RECURSIVE SortMatches(_)
SortMatches(ms) ==
    IF ms = <<>> THEN <<>>
    ELSE InsertSorted(SortMatches(SubSeq(ms, 1, Len(ms) - 1)), ms[Len(ms)])

DuplicateMatches(res, existing) ==
    IF ~IsDefined(res) THEN <<>>
    ELSE SortMatches(CollectMatches(existing, Val(res)))

\* the locals score and reasons at the end of each forEach iteration
ScoredEntries(res, existing) ==
    IF ~IsDefined(res) THEN <<>>
    ELSE [i \in DOMAIN existing |-> MatchEntry(existing[i], Val(res))]

----------------------------------------------------------------------------
(* Inputs of the scorer *)

MaxExisting == 2

ScorerVendors == {<<"s", "T">>, <<"A", "c">>}
CandidateAmounts == {0, 10000, 19900, 20100}
ExistingAmounts == {10050, 19900, 20100}
CandidateDates == {0, 11}
ExistingDates == {10, 120, 121, 400}

ExtractionResults ==
    [vendor : {<<"S", "t">>, <<"A", "c">>}, amount : CandidateAmounts,
     date : CandidateDates]

PurchaseContents ==
    [vendor : ScorerVendors, amount : ExistingAmounts, date : ExistingDates]

PurchaseLists ==
    UNION {{[i \in 1..n |-> NewDocument(DocId(i), cs[i].vendor, cs[i].amount,
                                        cs[i].date, <<>>, "PENDING")]
            : cs \in [1..n -> PurchaseContents]}
           : n \in 0..MaxExisting}

ScorerInit ==
    /\ result \in {Def(r) : r \in ExtractionResults}
    /\ purchases \in PurchaseLists
    /\ duplicateMatches = <<>>
    /\ scored = <<>>
    /\ rendered = FALSE
    /\ currentUser = Def(Submitter)
    /\ usingMockData = FALSE
    /\ activeTab = "upload"
    /\ reviewingId = Null
    /\ isAdding = TRUE
    /\ store = purchases
    /\ updateCalls = <<>>
    /\ ReviewInitial
    /\ UploadInitial
    /\ NoSubmission
    /\ lastEvent = "other"

\* variant: the sort is applied to the records list itself
RenderDuplicateMatches_SortsRecords ==
    /\ ~rendered
    /\ duplicateMatches' = DuplicateMatches(result, purchases)
    /\ scored' = ScoredEntries(result, purchases)
    /\ purchases' = LET sorted == SortMatches(ScoredEntries(result, purchases))
                    IN  [i \in DOMAIN purchases |-> sorted[i].purchase]
    /\ rendered' = TRUE
    /\ lastEvent' = "other"
    /\ UNCHANGED <<result, currentUser, usingMockData, activeTab, reviewingId,
                   isAdding, storeVars, reviewVars, uploadVars, callVars,
                   historyVars>>

\* a render of Upload: useMemo recomputes duplicateMatches
RenderDuplicateMatches ==
    /\ ~rendered
    /\ duplicateMatches' = DuplicateMatches(result, purchases)
    /\ scored' = ScoredEntries(result, purchases)
    /\ rendered' = TRUE
    /\ lastEvent' = "other"
    /\ UNCHANGED <<result, appVars, storeVars, reviewVars, uploadVars, callVars,
                   historyVars>>

ScorerNext == RenderDuplicateMatches

ScorerSpec == ScorerInit /\ [][ScorerNext]_vars

----------------------------------------------------------------------------
(* Claims about the duplicate scorer, checked under ScorerSpec *)

Max(a, b) == IF a >= b THEN a ELSE b

\* the three signals of a pair as the specification words them
SameVendorSignal(p, r) == ToLowerCase(p.vendor) = ToLowerCase(r.vendor)
SameAmountSignal(p, r) == Abs(p.amount - r.amount) * 100 <= Max(p.amount, r.amount)
SameDateSignal(p, r) == Abs(p.date - r.date) <= 120
SignalCount(p, r) ==
    (IF SameVendorSignal(p, r) THEN 1 ELSE 0)
    + (IF SameAmountSignal(p, r) THEN 1 ELSE 0)
    + (IF SameDateSignal(p, r) THEN 1 ELSE 0)

InMatches(p) == \E k \in DOMAIN duplicateMatches : duplicateMatches[k].purchase = p
MatchOf(p) ==
    duplicateMatches[CHOOSE k \in DOMAIN duplicateMatches :
                        duplicateMatches[k].purchase = p]

\* C1: an existing record is in duplicateMatches if and only if its score is
\* >= 60 and at least 2 of the 3 checks matched; a pair sharing exactly one
\* signal is never a match; same vendor and same amount with dates 200 days
\* apart is a match with score 70.
C1_MatchIffScoreAndTwoChecks ==
    rendered =>
        \A i \in DOMAIN purchases :
            LET p == purchases[i]
                r == Val(result)
            IN  /\ InMatches(p) <=>
                       (scored[i].score >= 60 /\ Len(scored[i].reasons) >= 2)
                /\ InMatches(p) => MatchOf(p).score = scored[i].score
                /\ SignalCount(p, r) = 1 => ~InMatches(p)
                /\ (SameVendorSignal(p, r) /\ p.amount = r.amount
                        /\ Abs(p.date - r.date) = 400)
                       => (InMatches(p) /\ MatchOf(p).score = 70)

C1_Witness ==
    /\ rendered
    /\ \E i \in DOMAIN purchases :
          LET p == purchases[i]
              r == Val(result)
          IN  /\ SameVendorSignal(p, r) /\ p.amount = r.amount
              /\ Abs(p.date - r.date) = 400
              /\ InMatches(p) /\ MatchOf(p).score = 70
    /\ \E i \in DOMAIN purchases :
          /\ SignalCount(purchases[i], Val(result)) = 1
          /\ ~InMatches(purchases[i])

\* C2: a pair with case-insensitively identical vendor, amount difference
\* <= 1% of the larger amount and date difference <= 60 days has score 100 and
\* is a match with reasons Same vendor, Same amount, Within N days.
C2_AllSignalsScore100 ==
    rendered =>
        \A i \in DOMAIN purchases :
            LET p == purchases[i]
                r == Val(result)
            IN  SignalCount(p, r) = 3 =>
                    /\ InMatches(p)
                    /\ MatchOf(p).score = 100
                    /\ MatchOf(p).reasons =
                           <<"Same vendor", "Same amount",
                             "Within " \o ToString(RoundHalfDays(Abs(p.date - r.date)))
                                \o " days">>

\* C3: the amount check contributes +40 exactly when the amounts differ by at
\* most 1% of the larger of the two, whichever record holds the larger one.
C3_AmountCheckSymmetric ==
    rendered =>
        \A i \in DOMAIN purchases :
            LET p == purchases[i]
                r == Val(result)
                others == (IF SameVendorSignal(p, r) THEN 30 ELSE 0)
                          + (IF SameDateSignal(p, r) THEN 30 ELSE 0)
            IN  /\ ("Same amount" \in Range(scored[i].reasons))
                       <=> SameAmountSignal(p, r)
                /\ scored[i].score - others =
                       (IF SameAmountSignal(p, r) THEN 40 ELSE 0)

----------------------------------------------------------------------------
(* App: handleUpdatePurchase and the purchases listener (part_002);        *)
(* Review: handleAction, handleReject (part_003)                           *)

MaxInflight == 1

\* one of the REJECTION_FLAGS
RejectionTags == {"WASTE"}
\* texts typed into the notes textarea: empty, blank, and text with padding
NotesInputs == {<<>>, <<" ">>, <<" ", "k">>}
\* new Date().toISOString()
NowISO == "2024-01-15T09:30:00.000Z"
NavTabs == {"dashboard"}

RemoveAt(s, k) == SubSeq(s, 1, k - 1) \o SubSeq(s, k + 1, Len(s))

RECURSIVE TrimStart(_)
TrimStart(s) == IF s # <<>> /\ Head(s) = " " THEN TrimStart(Tail(s)) ELSE s
RECURSIVE TrimEnd(_)
TrimEnd(s) ==
    IF s # <<>> /\ s[Len(s)] = " " THEN TrimEnd(SubSeq(s, 1, Len(s) - 1)) ELSE s
\* String.prototype.trim
Trim(s) == TrimEnd(TrimStart(s))

\* { ...p, ...updates }
Merge(p, updates) ==
    [f \in DOMAIN p |-> IF f \in DOMAIN updates THEN updates[f] ELSE p[f]]

\* variant: the updates are passed to updateDoc as they are
CleanedUpdates_Unfiltered(updates) == updates

\* Object.fromEntries(Object.entries(updates).filter(([_, v]) => v !== undefined))
CleanedUpdates(updates) ==
    [f \in {g \in DOMAIN updates : updates[g] # Undefined} |-> updates[f]]

\* prev.map(p => p.id === id ? { ...p, ...updates } : p)
OptimisticUpdate(list, id, updates) ==
    [i \in DOMAIN list |->
        IF list[i].id = id THEN Merge(list[i], updates) ELSE list[i]]

Ids(list) == {list[i].id : i \in DOMAIN list}

\* purchases.find(p => p.id === reviewingId)
HasActivePurchase ==
    IsDefined(reviewingId) /\ Val(reviewingId) \in Ids(purchases)
ActivePurchase ==
    purchases[CHOOSE i \in DOMAIN purchases :
                 /\ purchases[i].id = Val(reviewingId)
                 /\ \A j \in 1..(i - 1) : purchases[j].id # Val(reviewingId)]

UploadMounted == IsDefined(currentUser) /\ isAdding /\ activeTab = "upload"

\* renderContent, case 'review'
ReviewMounted ==
    /\ IsDefined(currentUser)
    /\ ~UploadMounted
    /\ activeTab = "review"
    /\ HasActivePurchase

isReviewer == Val(currentUser).role = "REVIEWER"

\* a Review component that is unmounted loses its state
ReviewReset ==
    /\ isResolving' = FALSE
    /\ showRejectModal' = FALSE
    /\ selectedRejectionFlags' = <<>>
    /\ rejectionNotes' = <<>>

ReviewKeptOrReset ==
    IF ReviewMounted /\ ReviewMounted' THEN UNCHANGED reviewVars ELSE ReviewReset

\* an Upload component that is unmounted loses its state, and the
\* continuations of its handleProcess calls set the state of a component that
\* is gone: they change nothing from then on
UploadReset ==
    /\ result' = Null
    /\ preview' = Null
    /\ fileReading' = FALSE
    /\ isProcessing' = FALSE
    /\ showDuplicateWarning' = FALSE
    /\ priceIntelligence' = Null
    /\ priceSearching' = FALSE
    /\ searchProgress' = Null
    /\ commitmentData' = Null
    /\ priceStreams' = <<>>
    /\ commitmentStreams' = <<>>

UploadKeptOrReset ==
    IF UploadMounted /\ UploadMounted'
    THEN UNCHANGED <<result, uploadVars>>
    ELSE UploadReset

\* handleUpdatePurchase up to its await: the optimistic update and, outside
\* sandbox mode, the updateDoc call with the cleaned payload
HandleUpdatePurchase(id, updates) ==
    /\ purchases' = OptimisticUpdate(purchases, id, updates)
    /\ IF ~usingMockData
       THEN updateCalls' = Append(updateCalls,
                [id |-> id, payload |-> CleanedUpdates(updates),
                 by |-> Val(currentUser).role])
       ELSE UNCHANGED updateCalls
    /\ UNCHANGED <<store, usingMockData>>

\* the part of handleAction and handleReject around "await onUpdate(...)":
\* in sandbox mode nothing is awaited and the handler runs to its end
\* (setIsResolving(false), onBack()); otherwise it waits for updateDoc
AroundUpdate(id, updates) ==
    /\ usingMockData \/ Len(updateCalls) < MaxInflight
    /\ HandleUpdatePurchase(id, updates)
    /\ IF usingMockData
       THEN /\ activeTab' = "dashboard"
            /\ ReviewReset
       ELSE /\ isResolving' = TRUE
            /\ UNCHANGED <<activeTab, showRejectModal, selectedRejectionFlags,
                           rejectionNotes>>
    /\ UNCHANGED <<currentUser, reviewingId, isAdding>>

\* variant: handleAction without its role check
handleAction_NoRoleCheck(status) ==
    /\ ReviewMounted
    /\ lastEvent' = "handleAction"
    /\ UNCHANGED uploadSide
    /\ ~isResolving
    /\ AroundUpdate(ActivePurchase.id, [status |-> Def(status)])

\* variant: the decision is stored as RESOLVED
handleAction_Resolves(status) ==
    /\ ReviewMounted
    /\ lastEvent' = "handleAction"
    /\ UNCHANGED uploadSide
    /\ \/ /\ ~isReviewer
          /\ UNCHANGED <<appVars, storeVars, reviewVars>>
       \/ /\ isReviewer
          /\ ~isResolving
          /\ AroundUpdate(ActivePurchase.id, [status |-> Def("RESOLVED")])

handleAction(status) ==
    /\ ReviewMounted
    /\ lastEvent' = "handleAction"
    /\ UNCHANGED uploadSide
    /\ \/ /\ ~isReviewer
          /\ UNCHANGED <<appVars, storeVars, reviewVars>>
       \/ /\ isReviewer
          /\ ~isResolving
          /\ AroundUpdate(ActivePurchase.id, [status |-> Def(status)])

\* variant: the notes are stored as typed, without trim()
RejectUpdates_NoTrim ==
    [status |-> Def("REJECTED"),
     rejectionFlags |-> Def(selectedRejectionFlags),
     rejectionNotes |-> IF rejectionNotes # <<>>
                        THEN Def(rejectionNotes) ELSE Undefined,
     rejectedBy |-> Def(Val(currentUser).name),
     rejectedAt |-> Def(NowISO)]

\* variant: the selected tags are also appended to the flags of the record
RejectUpdates_TagsIntoFlags ==
    [status |-> Def("REJECTED"),
     flags |-> ActivePurchase.flags \o selectedRejectionFlags,
     rejectionFlags |-> Def(selectedRejectionFlags),
     rejectionNotes |-> IF Trim(rejectionNotes) # <<>>
                        THEN Def(Trim(rejectionNotes)) ELSE Undefined,
     rejectedBy |-> Def(Val(currentUser).name),
     rejectedAt |-> Def(NowISO)]

RejectUpdates ==
    [status |-> Def("REJECTED"),
     rejectionFlags |-> Def(selectedRejectionFlags),
     rejectionNotes |-> IF Trim(rejectionNotes) # <<>>
                        THEN Def(Trim(rejectionNotes)) ELSE Undefined,
     rejectedBy |-> Def(Val(currentUser).name),
     rejectedAt |-> Def(NowISO)]

\* variant: handleReject without the check of the selected tags
handleReject_NoTagCheck ==
    /\ ReviewMounted
    /\ lastEvent' = "handleReject"
    /\ UNCHANGED uploadSide
    /\ \/ /\ ~isReviewer
          /\ UNCHANGED <<appVars, storeVars, reviewVars>>
       \/ /\ isReviewer
          /\ showRejectModal
          /\ ~isResolving
          /\ AroundUpdate(ActivePurchase.id, RejectUpdates)

handleReject ==
    /\ ReviewMounted
    /\ lastEvent' = "handleReject"
    /\ UNCHANGED uploadSide
    /\ \/ /\ ~isReviewer \/ Len(selectedRejectionFlags) = 0
          /\ UNCHANGED <<appVars, storeVars, reviewVars>>
       \/ /\ isReviewer /\ Len(selectedRejectionFlags) # 0
          /\ showRejectModal
          /\ ~isResolving
          /\ AroundUpdate(ActivePurchase.id, RejectUpdates)

openRejectModal ==
    /\ ReviewMounted
    /\ isReviewer
    /\ ~isResolving
    /\ selectedRejectionFlags' = <<>>
    /\ rejectionNotes' = <<>>
    /\ showRejectModal' = TRUE
    /\ lastEvent' = "other"
    /\ UNCHANGED <<isResolving, appVars, storeVars, uploadSide>>

closeRejectModal ==
    /\ ReviewMounted
    /\ showRejectModal
    /\ showRejectModal' = FALSE
    /\ lastEvent' = "other"
    /\ UNCHANGED <<isResolving, selectedRejectionFlags, rejectionNotes,
                   appVars, storeVars, uploadSide>>

toggleRejectionFlag(flagType) ==
    /\ ReviewMounted
    /\ showRejectModal
    /\ selectedRejectionFlags' =
          IF flagType \in Range(selectedRejectionFlags)
          THEN SelectSeq(selectedRejectionFlags, LAMBDA f : f # flagType)
          ELSE Append(selectedRejectionFlags, flagType)
    /\ lastEvent' = "other"
    /\ UNCHANGED <<isResolving, showRejectModal, rejectionNotes,
                   appVars, storeVars, uploadSide>>

setRejectionNotes(text) ==
    /\ ReviewMounted
    /\ showRejectModal
    /\ rejectionNotes' = text
    /\ lastEvent' = "other"
    /\ UNCHANGED <<isResolving, showRejectModal, selectedRejectionFlags,
                   appVars, storeVars, uploadSide>>

\* updateDoc resolves: the document takes the payload; handleUpdatePurchase
\* returns and the waiting handler ends with setIsResolving(false), onBack()
UpdateDocResolves(k) ==
    /\ k \in DOMAIN updateCalls
    /\ updateCalls[k].id \in Ids(store)
    /\ store' = OptimisticUpdate(store, updateCalls[k].id, updateCalls[k].payload)
    /\ updateCalls' = RemoveAt(updateCalls, k)
    /\ activeTab' = "dashboard"
    /\ ReviewReset
    /\ lastEvent' = "other"
    /\ UNCHANGED <<currentUser, purchases, usingMockData, reviewingId, isAdding,
                   memoVars, callVars, historyVars>>
    /\ UploadKeptOrReset

\* updateDoc rejects: the catch block switches to sandbox mode
UpdateDocRejects(k) ==
    /\ k \in DOMAIN updateCalls
    /\ updateCalls' = RemoveAt(updateCalls, k)
    /\ usingMockData' = TRUE
    /\ activeTab' = "dashboard"
    /\ ReviewReset
    /\ lastEvent' = "updateDocFailed"
    /\ UNCHANGED <<currentUser, purchases, store, reviewingId, isAdding,
                   memoVars, callVars, historyVars>>
    /\ UploadKeptOrReset

\* variant: in sandbox mode the snapshot is ignored
OnSnapshot_IgnoredInSandbox ==
    /\ IsDefined(currentUser)
    /\ purchases' = IF usingMockData THEN purchases ELSE store
    /\ UNCHANGED usingMockData
    /\ UNCHANGED <<currentUser, activeTab, reviewingId, isAdding>>
    /\ ReviewKeptOrReset
    /\ lastEvent' = "onSnapshot"
    /\ UNCHANGED <<storeVars, memoVars, callVars, historyVars>>
    /\ UploadKeptOrReset

\* onSnapshot success callback
OnSnapshot ==
    /\ IsDefined(currentUser)
    /\ purchases' = store
    /\ usingMockData' = FALSE
    /\ UNCHANGED <<currentUser, activeTab, reviewingId, isAdding>>
    /\ ReviewKeptOrReset
    /\ lastEvent' = "onSnapshot"
    /\ UNCHANGED <<storeVars, memoVars, callVars, historyVars>>
    /\ UploadKeptOrReset

\* onSnapshot error callback
OnSnapshotError ==
    /\ IsDefined(currentUser)
    /\ purchases' = <<>>
    /\ usingMockData' = FALSE
    /\ UNCHANGED <<currentUser, activeTab, reviewingId, isAdding>>
    /\ ReviewKeptOrReset
    /\ lastEvent' = "other"
    /\ UNCHANGED <<storeVars, memoVars, callVars, historyVars>>
    /\ UploadKeptOrReset

handleReview(id) ==
    /\ IsDefined(currentUser)
    /\ ~ReviewMounted
    /\ ~UploadMounted
    /\ id \in Ids(purchases)
    /\ reviewingId' = Def(id)
    /\ activeTab' = "review"
    /\ lastEvent' = "other"
    /\ UNCHANGED <<currentUser, purchases, usingMockData, isAdding,
                   storeVars, reviewVars, uploadSide>>

onBack ==
    /\ ReviewMounted
    /\ activeTab' = "dashboard"
    /\ ReviewReset
    /\ lastEvent' = "other"
    /\ UNCHANGED <<currentUser, purchases, usingMockData, reviewingId, isAdding,
                   storeVars, uploadSide>>

onTabChange(tab) ==
    /\ IsDefined(currentUser)
    /\ isAdding' = FALSE
    /\ activeTab' = tab
    /\ ReviewReset
    /\ lastEvent' = "other"
    /\ UNCHANGED <<currentUser, purchases, usingMockData, reviewingId,
                   storeVars, memoVars, callVars, historyVars>>
    /\ UploadKeptOrReset

handleLogout ==
    /\ IsDefined(currentUser)
    /\ currentUser' = Null
    /\ activeTab' = "landing"
    /\ ReviewReset
    /\ lastEvent' = "other"
    /\ UNCHANGED <<purchases, usingMockData, reviewingId, isAdding,
                   storeVars, memoVars, callVars, historyVars>>
    /\ UploadKeptOrReset

\* Login onSuccess / onAuthStateChanged
Login(user) ==
    /\ ~IsDefined(currentUser)
    /\ currentUser' = Def(user)
    /\ UNCHANGED <<purchases, usingMockData, activeTab, reviewingId, isAdding>>
    /\ ReviewKeptOrReset
    /\ lastEvent' = "other"
    /\ UNCHANGED <<storeVars, memoVars, callVars, historyVars>>
    /\ UploadKeptOrReset

StoredDocument(i, status) ==
    NewDocument(DocId(i), <<"A", "c">>, 10000, 0,
                IF status = "FLAGGED" THEN <<"PRICE_ANOMALY">> ELSE <<>>, status)

\* the collection when the session starts: one document in each status a
\* document can have before review, and a collection of two documents
InitialStores ==
    {<<StoredDocument(1, "PENDING")>>,
     <<StoredDocument(1, "FLAGGED")>>,
     <<StoredDocument(1, "RESOLVED")>>,
     <<StoredDocument(1, "FLAGGED"), StoredDocument(2, "PENDING")>>}


ReviewInit ==
    /\ currentUser = Null
    /\ purchases = <<>>
    /\ usingMockData = FALSE
    /\ activeTab = "dashboard"
    /\ reviewingId = Null
    /\ isAdding = FALSE
    /\ store \in InitialStores
    /\ updateCalls = <<>>
    /\ ReviewInitial
    /\ result = Null
    /\ duplicateMatches = <<>>
    /\ scored = <<>>
    /\ rendered = FALSE
    /\ UploadInitial
    /\ NoSubmission
    /\ lastEvent = "other"

ReviewNext ==
    \/ \E status \in {"VALIDATED"} : handleAction(status)
    \/ handleReject
    \/ openRejectModal
    \/ closeRejectModal
    \/ \E flagType \in RejectionTags : toggleRejectionFlag(flagType)
    \/ \E text \in NotesInputs : setRejectionNotes(text)
    \/ \E k \in 1..MaxInflight : UpdateDocResolves(k)
    \/ \E k \in 1..MaxInflight : UpdateDocRejects(k)
    \/ OnSnapshot
    \/ OnSnapshotError
    \/ \E id \in Ids(purchases) : handleReview(id)
    \/ onBack
    \/ \E tab \in NavTabs : onTabChange(tab)
    \/ handleLogout
    \/ \E user \in Users : Login(user)

ReviewSpec == ReviewInit /\ [][ReviewNext]_vars

----------------------------------------------------------------------------
(* Claims about the review handlers, checked under ReviewSpec *)

TerminalStatuses == {"VALIDATED", "RESOLVED", "REJECTED"}

RejectionFields == {"rejectionFlags", "rejectionNotes", "rejectedBy", "rejectedAt"}

recordVars == <<purchases, store, updateCalls>>

\* C5: handleReject invoked while the list of selected tags is empty changes
\* no record, local or persisted, issues no updateDoc call and leaves the
\* reject dialog as it was.
C5_EmptyRejectChangesNothing ==
    [][(handleReject /\ Len(selectedRejectionFlags) = 0)
          => UNCHANGED <<purchases, store, updateCalls, usingMockData,
                         isResolving, showRejectModal, selectedRejectionFlags,
                         rejectionNotes, activeTab>>]_vars

C5_Witness ==
    /\ ReviewMounted
    /\ isReviewer
    /\ showRejectModal
    /\ selectedRejectionFlags = <<>>
    /\ lastEvent = "handleReject"

AllRejectionFieldsSet(d) ==
    /\ d.status = Def("REJECTED")
    /\ IsDefined(d.rejectionFlags) /\ Val(d.rejectionFlags) # <<>>
    /\ IsDefined(d.rejectionNotes) /\ Val(d.rejectionNotes) # <<>>
    /\ IsDefined(d.rejectedBy) /\ Val(d.rejectedBy) # ""
    /\ IsDefined(d.rejectedAt) /\ Val(d.rejectedAt) # ""

\* C6 as stated: after a reject by a reviewer with at least one tag, whatever
\* the notes, the record is REJECTED with all four rejection fields non-empty,
\* in the local list and in the store.
C6_AllFourFieldsSet ==
    /\ \A i \in DOMAIN purchases :
          purchases[i].status = Def("REJECTED") => AllRejectionFieldsSet(purchases[i])
    /\ \A i \in DOMAIN store :
          store[i].status = Def("REJECTED") => AllRejectionFieldsSet(store[i])

RejectionRecorded(d) ==
    /\ d.status = Def("REJECTED")
    /\ IsDefined(d.rejectionFlags) /\ Val(d.rejectionFlags) # <<>>
    /\ IsDefined(d.rejectedBy) /\ Val(d.rejectedBy) # ""
    /\ IsDefined(d.rejectedAt) /\ Val(d.rejectedAt) # ""
    /\ IsDefined(d.rejectionNotes) =>
          /\ Val(d.rejectionNotes) # <<>>
          /\ Head(Val(d.rejectionNotes)) # " "
          /\ Val(d.rejectionNotes)[Len(Val(d.rejectionNotes))] # " "

BlankNotes == \A i \in DOMAIN rejectionNotes : rejectionNotes[i] = " "

\* C6 amended: after a reject by a reviewer with at least one tag the record
\* is REJECTED and rejectionFlags, rejectedBy and rejectedAt are non-empty, in
\* the local list and in the store; rejectionNotes is written only when the
\* notes hold a non-blank character (then non-empty, without surrounding
\* blanks), and with empty or blank notes the reject leaves the local
\* rejectionNotes undefined and sends no rejectionNotes to the store.
C6_RejectionRecordedNotesOptional ==
    /\ [](\A i \in DOMAIN purchases :
             purchases[i].status = Def("REJECTED") => RejectionRecorded(purchases[i]))
    /\ [](\A i \in DOMAIN store :
             store[i].status = Def("REJECTED") => RejectionRecorded(store[i]))
    /\ [](\A k \in DOMAIN updateCalls :
             updateCalls[k].payload.status = Def("REJECTED") =>
                /\ {"rejectionFlags", "rejectedBy", "rejectedAt"}
                      \subseteq DOMAIN updateCalls[k].payload
                /\ \A f \in DOMAIN updateCalls[k].payload :
                      IsDefined(updateCalls[k].payload[f]))
    /\ [][(handleReject /\ purchases' # purchases) =>
             LET id == ActivePurchase.id
                 after == purchases'[CHOOSE i \in DOMAIN purchases' :
                                        purchases'[i].id = id]
             IN  /\ RejectionRecorded(after)
                 /\ IsDefined(after.rejectionNotes) <=> ~BlankNotes
                 /\ ~usingMockData =>
                       /\ Len(updateCalls') = Len(updateCalls) + 1
                       /\ ("rejectionNotes" \in
                              DOMAIN updateCalls'[Len(updateCalls')].payload)
                             <=> ~BlankNotes]_vars

\* a reject with blank notes has been persisted
C6_Witness ==
    /\ \E i \in DOMAIN store :
          /\ store[i].status = Def("REJECTED")
          /\ store[i].rejectionNotes = Undefined
          /\ \E j \in DOMAIN purchases : purchases[j] = store[i]
    /\ \E i \in DOMAIN store :
          /\ store[i].status = Def("REJECTED")
          /\ IsDefined(store[i].rejectionNotes)

NoRejectionFields(d) == \A f \in RejectionFields : d[f] = Undefined

\* C7: a record whose status is not REJECTED has none of rejectionFlags,
\* rejectionNotes, rejectedBy, rejectedAt set, in the local list and in the
\* store; in particular after a validate.
C7_RejectionFieldsOnlyWhenRejected ==
    /\ \A i \in DOMAIN purchases :
          purchases[i].status # Def("REJECTED") => NoRejectionFields(purchases[i])
    /\ \A i \in DOMAIN store :
          store[i].status # Def("REJECTED") => NoRejectionFields(store[i])

\* C8: once a record is VALIDATED, RESOLVED or REJECTED, no approve and no
\* reject changes its status or rejection fields or issues an update for it.
C8_TerminalStatuses ==
    [][(/\ ReviewMounted
        /\ Val(ActivePurchase.status) \in TerminalStatuses
        /\ (handleReject \/ \E st \in ReviewStatuses : handleAction(st)))
          => UNCHANGED <<purchases, store, updateCalls>>]_vars

StatusOf(list, id) ==
    list[CHOOSE i \in DOMAIN list : list[i].id = id].status

StatusChanged(before, after) ==
    \E id \in Ids(before) \cap Ids(after) : StatusOf(before, id) # StatusOf(after, id)

\* C9: handleAction and handleReject invoked by a SUBMITTER or VIEWER change
\* no record and issue no updateDoc call; every updateDoc call is issued by a
\* REVIEWER, every status change in the store is the effect of such a call,
\* and every status change in the local list is made by a handler run by a
\* REVIEWER or by the listener replacing the list.
C9_ReviewerOnly ==
    [][/\ ((handleReject \/ \E st \in ReviewStatuses : handleAction(st))
              /\ Val(currentUser).role # "REVIEWER")
          => UNCHANGED <<purchases, store, updateCalls, usingMockData>>
       /\ Len(updateCalls') > Len(updateCalls)
          => /\ IsDefined(currentUser) /\ Val(currentUser).role = "REVIEWER"
             /\ updateCalls'[Len(updateCalls')].by = "REVIEWER"
       /\ StatusChanged(store, store')
          => \E k \in DOMAIN updateCalls :
                /\ updateCalls[k].by = "REVIEWER"
                /\ updateCalls' = RemoveAt(updateCalls, k)
                /\ store' = OptimisticUpdate(store, updateCalls[k].id,
                                             updateCalls[k].payload)
       /\ StatusChanged(purchases, purchases')
          => \/ /\ IsDefined(currentUser) /\ Val(currentUser).role = "REVIEWER"
                /\ lastEvent' \in {"handleAction", "handleReject"}
             \/ OnSnapshot]_vars

\* a handler was invoked by a user who is no reviewer
C9_Witness ==
    /\ ReviewMounted
    /\ Val(currentUser).role \in {"SUBMITTER", "VIEWER"}
    /\ lastEvent \in {"handleAction", "handleReject"}

----------------------------------------------------------------------------
(* Receipt intake: Upload handlers (Upload.tsx) and handleUploadComplete    *)
(* (part_002)                                                              *)

MaxIntakes == 2
MaxSubmissions == 2

\* the data URL of the selected receipt
Image == "data:image/jpeg;base64,AAAA"
DownloadURL == "https://storage/receipts/1.jpg"
Flag(type) == [type |-> type, reason |-> "r", context |-> "c"]

\* an ExtractionResult parsed from the response of the model; flags and
\* marketPriceEstimate can be missing
Extraction(flags, estimate) ==
    [vendor |-> <<"S", "t">>, amount |-> 10000, date |-> 0,
     flags |-> flags, marketPriceEstimate |-> estimate]

IntakeResults ==
    {Extraction(Undefined, Undefined),
     Extraction(Def(<<>>), Def(8000)),
     Extraction(Def(<<Flag("PRICE_ANOMALY")>>), Def(12000))}

NormalizedItem == [normalizedId |-> "n1", itemName |-> "paper", confidence |-> 90]
\* averagePrice of the market price search: null, below and above the amount
AveragePrices == {Null, Def(8000), Def(12000)}
\* what searchMarketPriceStreaming resolves with
MarketPrices ==
    {Null} \cup {Def([averagePrice |-> a, sources |-> <<"s">>]) : a \in AveragePrices}
ProgressUpdates == {"searching"}
Commitments == {Null, Def([isRecurring |-> TRUE])}

\* the useMemo value at the render the handlers were bound in
CurrentMatches == DuplicateMatches(result, purchases)

\* data.flags.map(f => ({type, reason, context})) over data.flags || []
MappedFlags(data) ==
    IF IsDefined(data.flags)
    THEN [i \in DOMAIN Val(data.flags) |->
             [type |-> Val(data.flags)[i].type,
              reason |-> Val(data.flags)[i].reason,
              context |-> Val(data.flags)[i].context]]
    ELSE <<>>

\* variant: FLAGGED as soon as the result carries a flags list
NewPurchaseStatus_FlagsPresent(data) ==
    IF IsDefined(data.flags) THEN "FLAGGED" ELSE "PENDING"

\* (data.flags && data.flags.length > 0) ? FLAGGED : PENDING
NewPurchaseStatus(data) ==
    IF IsDefined(data.flags) /\ Len(Val(data.flags)) > 0
    THEN "FLAGGED" ELSE "PENDING"

\* newPurchase of handleUploadComplete, without id; the results carry a
\* vendor and a date, so that "|| 'Unknown Vendor'" and "|| today" keep them
NewPurchase(data, fileUrl) ==
    [NewDocument("", data.vendor,
                 IF data.amount # 0 THEN data.amount ELSE 0,
                 data.date,
                 MappedFlags(data), NewPurchaseStatus(data))
        EXCEPT !.fileUrl = fileUrl]

TempId(t) == "uploading-" \o ToString(t)

\* setPurchases(prev => [{ ...newPurchase, id: tempId }, ...prev])
WithTempRecord(list, newPurchase, t) ==
    <<[newPurchase EXCEPT !.id = TempId(t)]>> \o list

\* the tail of handleUploadComplete: setIsAdding(false), setActiveTab('dashboard')
BackToDashboard ==
    /\ isAdding' = FALSE
    /\ activeTab' = "dashboard"
    /\ UploadKeptOrReset
    /\ ReviewKeptOrReset

\* handleUploadComplete(data, imageData) up to its first await; in sandbox
\* mode nothing is awaited and the handler runs to its end
handleUploadComplete(data, imageData) ==
    /\ Len(confirmed) < MaxSubmissions
    /\ confirmed' = Append(confirmed, intake)
    /\ IF ~usingMockData
       THEN /\ uploadCalls' = Append(uploadCalls,
                                     [data |-> data, imageData |-> imageData,
                                      intake |-> intake])
            /\ UNCHANGED <<appVars, reviewVars, result, uploadVars, addCalls,
                           now, createRecords>>
       ELSE /\ purchases' = WithTempRecord(purchases, NewPurchase(data, ""), now)
            /\ UNCHANGED createRecords
            /\ now' = now + 1
            /\ UNCHANGED <<currentUser, usingMockData, reviewingId,
                           uploadCalls, addCalls>>
            /\ BackToDashboard
    /\ UNCHANGED <<storeVars, memoVars, intake>>

\* the continuation of handleUploadComplete behind uploadReceiptImage: the
\* record is built, prepended with a temporary id, and addDoc is called
AfterUpload(k, fileUrl) ==
    LET call == uploadCalls[k]
        newPurchase == NewPurchase(call.data, fileUrl)
    IN  /\ purchases' = WithTempRecord(purchases, newPurchase, now)
        /\ now' = now + 1
        /\ addCalls' = Append(addCalls, [payload |-> newPurchase,
                                         intake |-> call.intake])
        /\ createRecords' =
              [createRecords EXCEPT ![call.intake] = createRecords[call.intake] + 1]
        /\ uploadCalls' = RemoveAt(uploadCalls, k)
        /\ lastEvent' = "other"
        /\ UNCHANGED <<currentUser, usingMockData, activeTab, reviewingId,
                       isAdding, storeVars, reviewVars, scorerVars, uploadVars,
                       intake, confirmed>>

UploadReceiptImageResolves(k) ==
    /\ k \in DOMAIN uploadCalls
    /\ AfterUpload(k, DownloadURL)

\* the inner catch: fileUrl stays ''
UploadReceiptImageRejects(k) ==
    /\ k \in DOMAIN uploadCalls
    /\ AfterUpload(k, "")

\* the positions a new document can take in the query ordered by date,
\* descending (documents of one date are in the order of their ids)
InsertPositions(list, d) ==
    {n \in 0..Len(list) :
        /\ \A i \in 1..n : list[i].date >= d.date
        /\ \A i \in (n + 1)..Len(list) : list[i].date <= d.date}

InsertAt(list, n, d) == SubSeq(list, 1, n) \o <<d>> \o SubSeq(list, n + 1, Len(list))

\* addDoc resolves: the collection holds the document under a new id
AddDocResolves(k) ==
    /\ k \in DOMAIN addCalls
    /\ \E n \in InsertPositions(store, addCalls[k].payload) :
          store' = InsertAt(store, n,
                            [addCalls[k].payload EXCEPT !.id = DocId(Len(store) + 1)])
    /\ addCalls' = RemoveAt(addCalls, k)
    /\ UNCHANGED <<currentUser, purchases, usingMockData, reviewingId,
                   updateCalls, memoVars, uploadCalls, now, historyVars>>
    /\ BackToDashboard
    /\ lastEvent' = "other"

\* variant: the catch block only logs the error
AddDocRejects_OnlyLogs(k) ==
    /\ k \in DOMAIN addCalls
    /\ addCalls' = RemoveAt(addCalls, k)
    /\ UNCHANGED <<currentUser, purchases, usingMockData, reviewingId, storeVars,
                   memoVars, uploadCalls, now, historyVars>>
    /\ BackToDashboard
    /\ lastEvent' = "addDocFailed"

\* addDoc rejects: the catch block switches to sandbox mode
AddDocRejects(k) ==
    /\ k \in DOMAIN addCalls
    /\ addCalls' = RemoveAt(addCalls, k)
    /\ usingMockData' = TRUE
    /\ UNCHANGED <<currentUser, purchases, reviewingId, storeVars, memoVars,
                   uploadCalls, now, historyVars>>
    /\ BackToDashboard
    /\ lastEvent' = "addDocFailed"

handleAddPurchase ==
    /\ IsDefined(currentUser)
    /\ Val(currentUser).role # "VIEWER"
    /\ isAdding' = TRUE
    /\ activeTab' = "upload"
    /\ UNCHANGED <<currentUser, purchases, usingMockData, reviewingId,
                   storeVars, memoVars, callVars, historyVars>>
    /\ UploadKeptOrReset
    /\ ReviewKeptOrReset
    /\ lastEvent' = "other"

\* frame of a handler that sets state of Upload only
UploadOnly ==
    /\ lastEvent' = "other"
    /\ UNCHANGED <<appVars, storeVars, reviewVars, memoVars, callVars>>

\* a file is selected in the picker, which is shown while there is no preview
handleFileChange ==
    /\ UploadMounted
    /\ ~IsDefined(preview)
    /\ fileReading' = TRUE
    /\ result' = Null
    /\ UploadOnly
    /\ UNCHANGED <<preview, isProcessing, showDuplicateWarning, priceIntelligence,
                   priceSearching, searchProgress, commitmentData, priceStreams,
                   commitmentStreams, historyVars>>

\* reader.onloadend
ReaderLoadEnd ==
    /\ UploadMounted
    /\ fileReading
    /\ preview' = Def(Image)
    /\ fileReading' = FALSE
    /\ UploadOnly
    /\ UNCHANGED <<result, isProcessing, showDuplicateWarning, priceIntelligence,
                   priceSearching, searchProgress, commitmentData, priceStreams,
                   commitmentStreams, historyVars>>

\* handleProcess up to "await analyzeReceipt(base64)"
handleProcess ==
    /\ UploadMounted
    /\ UploadOnly
    /\ UNCHANGED <<result, preview, fileReading, priceSearching, searchProgress,
                   priceStreams, commitmentStreams, historyVars>>
    /\ \/ /\ ~IsDefined(preview)
          /\ UNCHANGED <<isProcessing, showDuplicateWarning, priceIntelligence,
                         commitmentData>>
       \/ /\ IsDefined(preview)
          /\ ~IsDefined(result)
          /\ ~isProcessing
          /\ isProcessing' = TRUE
          /\ showDuplicateWarning' = FALSE
          /\ priceIntelligence' = Null
          /\ commitmentData' = Null

\* analyzeReceipt returned a result: it is staged and both enrichment streams
\* are started
AnalyzeReceiptResolves(extractedData) ==
    /\ UploadMounted
    /\ isProcessing
    /\ intake < MaxIntakes
    /\ result' = Def(extractedData)
    /\ isProcessing' = FALSE
    /\ intake' = intake + 1
    /\ createRecords' = [n \in 1..(intake + 1) |->
                            IF n \in DOMAIN createRecords THEN createRecords[n] ELSE 0]
    /\ priceStreams' = Append(priceStreams,
                              [pc |-> "normalize", data |-> extractedData,
                               intake |-> intake + 1])
    /\ commitmentStreams' = Append(commitmentStreams,
                                   [data |-> extractedData, intake |-> intake + 1])
    /\ UploadOnly
    /\ UNCHANGED <<preview, fileReading, showDuplicateWarning, priceIntelligence,
                   priceSearching, searchProgress, commitmentData, confirmed>>

\* variant: a failed analysis stages an empty extraction
AnalyzeReceiptFails_StagesEmpty ==
    /\ UploadMounted
    /\ isProcessing
    /\ isProcessing' = FALSE
    /\ result' = Def(Extraction(Undefined, Undefined))
    /\ lastEvent' = "analyzeReceiptFailed"
    /\ UNCHANGED <<appVars, storeVars, reviewVars, memoVars, callVars>>
    /\ UNCHANGED <<preview, fileReading, showDuplicateWarning,
                   priceIntelligence, priceSearching, searchProgress,
                   commitmentData, priceStreams, commitmentStreams, historyVars>>

\* variant: the enrichment calls are issued although the analysis failed
AnalyzeReceiptFails_StartsEnrichment ==
    /\ UploadMounted
    /\ isProcessing
    /\ isProcessing' = FALSE
    /\ priceStreams' = Append(priceStreams,
                              [pc |-> "normalize",
                               data |-> Extraction(Undefined, Undefined),
                               intake |-> intake])
    /\ commitmentStreams' = Append(commitmentStreams,
                                   [data |-> Extraction(Undefined, Undefined),
                                    intake |-> intake])
    /\ lastEvent' = "analyzeReceiptFailed"
    /\ UNCHANGED <<appVars, storeVars, reviewVars, memoVars, callVars>>
    /\ UNCHANGED <<result, preview, fileReading, showDuplicateWarning,
                   priceIntelligence, priceSearching, searchProgress,
                   commitmentData, historyVars>>

\* analyzeReceipt returned null: "AI Analysis failed. Please try again."
AnalyzeReceiptFails ==
    /\ UploadMounted
    /\ isProcessing
    /\ isProcessing' = FALSE
    /\ lastEvent' = "analyzeReceiptFailed"
    /\ UNCHANGED <<appVars, storeVars, reviewVars, memoVars, callVars>>
    /\ UNCHANGED <<result, preview, fileReading, showDuplicateWarning,
                   priceIntelligence, priceSearching, searchProgress,
                   commitmentData, priceStreams, commitmentStreams, historyVars>>

\* frame of an enrichment continuation
EnrichmentOnly ==
    /\ UploadOnly
    /\ UNCHANGED <<result, preview, fileReading, isProcessing,
                   showDuplicateWarning, historyVars>>

\* the object handed to setPriceIntelligence
PriceIntelligence(normalized, stateAverage, savingsOpportunity, sources) ==
    [normalizedId |-> normalized.normalizedId,
     itemName |-> normalized.itemName,
     confidence |-> normalized.confidence,
     stateAverage |-> stateAverage,
     savingsOpportunity |-> savingsOpportunity,
     sources |-> sources]

\* savingsOpportunity > 0 ? savingsOpportunity : undefined
SavingsOpportunity(amount, price) ==
    IF amount - price > 0 THEN Def(amount - price) ELSE Undefined

\* normalizeItemForPricing resolves, with an item or with null
NormalizeResolves(k, normalized) ==
    /\ UploadMounted
    /\ k \in DOMAIN priceStreams
    /\ priceStreams[k].pc = "normalize"
    /\ IF IsDefined(normalized)
       THEN /\ priceIntelligence' =
                  Def(PriceIntelligence(Val(normalized), Undefined, Undefined,
                                        Undefined))
            /\ priceSearching' = TRUE
            /\ searchProgress' = Null
            /\ priceStreams' =
                  [priceStreams EXCEPT ![k] =
                      [pc |-> "search", data |-> priceStreams[k].data,
                       intake |-> priceStreams[k].intake,
                       normalized |-> Val(normalized)]]
       ELSE /\ priceStreams' = RemoveAt(priceStreams, k)
            /\ UNCHANGED <<priceIntelligence, priceSearching, searchProgress>>
    /\ EnrichmentOnly
    /\ UNCHANGED <<commitmentData, commitmentStreams>>

\* normalizeItemForPricing rejects: the outer catch logs the error
NormalizeRejects(k) ==
    /\ UploadMounted
    /\ k \in DOMAIN priceStreams
    /\ priceStreams[k].pc = "normalize"
    /\ priceStreams' = RemoveAt(priceStreams, k)
    /\ EnrichmentOnly
    /\ UNCHANGED <<priceIntelligence, priceSearching, searchProgress,
                   commitmentData, commitmentStreams>>

\* the progress callback of searchMarketPriceStreaming
OnSearchProgress(k, update) ==
    /\ UploadMounted
    /\ k \in DOMAIN priceStreams
    /\ priceStreams[k].pc = "search"
    /\ searchProgress' = Def(update)
    /\ EnrichmentOnly
    /\ UNCHANGED <<priceIntelligence, priceSearching, commitmentData,
                   priceStreams, commitmentStreams>>

\* searchMarketPriceStreaming resolves; finally: setPriceSearching(false),
\* setSearchProgress(null)
SearchResolves(k, marketPrice) ==
    /\ UploadMounted
    /\ k \in DOMAIN priceStreams
    /\ priceStreams[k].pc = "search"
    /\ IF IsDefined(marketPrice) /\ IsDefined(Val(marketPrice).averagePrice)
       THEN priceIntelligence' =
               Def(PriceIntelligence(
                      priceStreams[k].normalized,
                      Val(marketPrice).averagePrice,
                      SavingsOpportunity(priceStreams[k].data.amount,
                                         Val(Val(marketPrice).averagePrice)),
                      Def(Val(marketPrice).sources)))
       ELSE UNCHANGED priceIntelligence
    /\ priceSearching' = FALSE
    /\ searchProgress' = Null
    /\ priceStreams' = RemoveAt(priceStreams, k)
    /\ EnrichmentOnly
    /\ UNCHANGED <<commitmentData, commitmentStreams>>

\* the search itself fails (the request or JSON.parse throws):
\* searchMarketPriceStreaming catches the error, reports 'Search failed' and
\* returns null, so the awaiting code continues as for a null result; finally
\* as above
SearchFails(k) ==
    /\ UploadMounted
    /\ k \in DOMAIN priceStreams
    /\ priceStreams[k].pc = "search"
    /\ UNCHANGED priceIntelligence
    /\ priceSearching' = FALSE
    /\ searchProgress' = Null
    /\ priceStreams' = RemoveAt(priceStreams, k)
    /\ lastEvent' = "searchFailed"
    /\ UNCHANGED <<appVars, storeVars, reviewVars, memoVars, callVars>>
    /\ UNCHANGED <<result, preview, fileReading, isProcessing,
                   showDuplicateWarning, historyVars>>
    /\ UNCHANGED <<commitmentData, commitmentStreams>>

\* the catch around the awaited search: the estimate of the extraction, if
\* there is one, is the fallback; finally as above. It runs only when the
\* awaited promise rejects, which searchMarketPriceStreaming never does, so it
\* is no step of a specification.
SearchRejects(k) ==
    /\ UploadMounted
    /\ k \in DOMAIN priceStreams
    /\ priceStreams[k].pc = "search"
    /\ LET data == priceStreams[k].data
       IN  IF IsDefined(data.marketPriceEstimate) /\ Val(data.marketPriceEstimate) # 0
           THEN priceIntelligence' =
                   Def(PriceIntelligence(
                          priceStreams[k].normalized,
                          data.marketPriceEstimate,
                          SavingsOpportunity(data.amount,
                                             Val(data.marketPriceEstimate)),
                          Undefined))
           ELSE UNCHANGED priceIntelligence
    /\ priceSearching' = FALSE
    /\ searchProgress' = Null
    /\ priceStreams' = RemoveAt(priceStreams, k)
    /\ EnrichmentOnly
    /\ UNCHANGED <<commitmentData, commitmentStreams>>

\* variant: the commitment extraction is awaited after the price stream
ExtractCommitmentsResolves_AfterPrices(k, commitments) ==
    /\ UploadMounted
    /\ k \in DOMAIN commitmentStreams
    /\ \A j \in DOMAIN priceStreams :
          priceStreams[j].intake # commitmentStreams[k].intake
    /\ commitmentData' = IF IsDefined(commitments) THEN commitments
                         ELSE commitmentData
    /\ commitmentStreams' = RemoveAt(commitmentStreams, k)
    /\ EnrichmentOnly
    /\ UNCHANGED <<priceIntelligence, priceSearching, searchProgress, priceStreams>>

\* extractCommitments resolves, with commitments or with null
ExtractCommitmentsResolves(k, commitments) ==
    /\ UploadMounted
    /\ k \in DOMAIN commitmentStreams
    /\ commitmentData' = IF IsDefined(commitments) THEN commitments
                         ELSE commitmentData
    /\ commitmentStreams' = RemoveAt(commitmentStreams, k)
    /\ EnrichmentOnly
    /\ UNCHANGED <<priceIntelligence, priceSearching, searchProgress, priceStreams>>

\* extractCommitments rejects: the catch logs the error
ExtractCommitmentsRejects(k) ==
    /\ UploadMounted
    /\ k \in DOMAIN commitmentStreams
    /\ commitmentStreams' = RemoveAt(commitmentStreams, k)
    /\ EnrichmentOnly
    /\ UNCHANGED <<priceIntelligence, priceSearching, searchProgress,
                   commitmentData, priceStreams>>

\* everything but the duplicate warning stays
OnlyWarningChanges ==
    UNCHANGED <<appVars, storeVars, reviewVars, scorerVars, preview, fileReading,
                isProcessing, priceIntelligence, priceSearching, searchProgress,
                commitmentData, priceStreams, commitmentStreams, callVars,
                historyVars>>

\* variant: Confirm submits without looking at duplicateMatches
handleConfirm_NoGate ==
    /\ UploadMounted
    /\ lastEvent' = "other"
    /\ \/ /\ ~IsDefined(result) \/ ~IsDefined(preview)
          /\ UNCHANGED showDuplicateWarning
          /\ OnlyWarningChanges
       \/ /\ IsDefined(result) /\ IsDefined(preview)
          /\ handleUploadComplete(Val(result), Val(preview))

\* variant: Confirm waits for the price search and the commitment extraction
handleConfirm_AfterEnrichment ==
    /\ UploadMounted
    /\ lastEvent' = "other"
    /\ \/ /\ \/ ~IsDefined(result) \/ ~IsDefined(preview)
             \/ priceStreams # <<>> \/ commitmentStreams # <<>>
          /\ UNCHANGED showDuplicateWarning
          /\ OnlyWarningChanges
       \/ /\ IsDefined(result) /\ IsDefined(preview)
          /\ priceStreams = <<>> /\ commitmentStreams = <<>>
          /\ IF Len(CurrentMatches) > 0 /\ ~showDuplicateWarning
             THEN /\ showDuplicateWarning' = TRUE
                  /\ OnlyWarningChanges
             ELSE handleUploadComplete(Val(result), Val(preview))

\* the Confirm Submission button is shown while there is a result and is
\* never disabled
handleConfirm ==
    /\ UploadMounted
    /\ lastEvent' = "other"
    /\ \/ /\ ~IsDefined(result) \/ ~IsDefined(preview)
          /\ UNCHANGED showDuplicateWarning
          /\ OnlyWarningChanges
       \/ /\ IsDefined(result) /\ IsDefined(preview)
          /\ IF Len(CurrentMatches) > 0 /\ ~showDuplicateWarning
             THEN /\ showDuplicateWarning' = TRUE
                  /\ OnlyWarningChanges
             ELSE handleUploadComplete(Val(result), Val(preview))

\* the panel of the duplicate warning: showDuplicateWarning &&
\* duplicateMatches.length > 0, inside the result card
WarningShown ==
    IsDefined(result) /\ showDuplicateWarning /\ Len(CurrentMatches) > 0

handleCancelSubmission ==
    /\ UploadMounted
    /\ WarningShown
    /\ showDuplicateWarning' = FALSE
    /\ lastEvent' = "other"
    /\ OnlyWarningChanges

\* variant: Submit Anyway looks at duplicateMatches again and, with matches,
\* goes back to the prompt
handleForceSubmit_Regated ==
    /\ UploadMounted
    /\ WarningShown
    /\ lastEvent' = "handleForceSubmit"
    /\ IF IsDefined(result) /\ IsDefined(preview) /\ Len(CurrentMatches) = 0
       THEN handleUploadComplete(Val(result), Val(preview))
       ELSE /\ showDuplicateWarning' = FALSE
            /\ OnlyWarningChanges

\* Submit Anyway
handleForceSubmit ==
    /\ UploadMounted
    /\ WarningShown
    /\ lastEvent' = "handleForceSubmit"
    /\ IF IsDefined(result) /\ IsDefined(preview)
       THEN handleUploadComplete(Val(result), Val(preview))
       ELSE /\ UNCHANGED showDuplicateWarning
            /\ OnlyWarningChanges

\* Retake, Discard, and the X on the preview
reset ==
    /\ UploadMounted
    /\ IsDefined(preview) \/ IsDefined(result)
    /\ preview' = Null
    /\ result' = Null
    /\ showDuplicateWarning' = FALSE
    /\ priceIntelligence' = Null
    /\ priceSearching' = FALSE
    /\ searchProgress' = Null
    /\ commitmentData' = Null
    /\ UploadOnly
    /\ UNCHANGED <<fileReading, isProcessing, priceStreams, commitmentStreams,
                   historyVars>>

\* the collection when the session starts: one document that shares amount
\* and date with the receipts; the local list is empty until the first
\* snapshot arrives
IntakeStores == {<<StoredDocument(1, "PENDING")>>}

IntakeInit ==
    /\ currentUser = Def(Submitter)
    /\ purchases = <<>>
    /\ usingMockData = FALSE
    /\ activeTab = "dashboard"
    /\ reviewingId = Null
    /\ isAdding = FALSE
    /\ store \in IntakeStores
    /\ updateCalls = <<>>
    /\ ReviewInitial
    /\ result = Null
    /\ duplicateMatches = <<>>
    /\ scored = <<>>
    /\ rendered = FALSE
    /\ UploadInitial
    /\ NoSubmission
    /\ lastEvent = "other"

\* the submission path: the handlers of Upload, handleUploadComplete and its
\* calls, the listener and the navigation; the enrichment calls started by
\* handleProcess stay pending
IntakeNext ==
    \/ handleAddPurchase
    \/ handleFileChange
    \/ ReaderLoadEnd
    \/ handleProcess
    \/ \E extractedData \in IntakeResults : AnalyzeReceiptResolves(extractedData)
    \/ AnalyzeReceiptFails
    \/ handleConfirm
    \/ handleCancelSubmission
    \/ handleForceSubmit
    \/ reset
    \/ \E k \in 1..MaxSubmissions : UploadReceiptImageResolves(k)
    \/ \E k \in 1..MaxSubmissions : UploadReceiptImageRejects(k)
    \/ \E k \in 1..MaxSubmissions : AddDocResolves(k)
    \/ \E k \in 1..MaxSubmissions : AddDocRejects(k)
    \/ OnSnapshot
    \/ OnSnapshotError
    \/ \E tab \in NavTabs : onTabChange(tab)

IntakeSpec == IntakeInit /\ [][IntakeNext]_vars

\* the enrichment path: handleProcess and the continuations of its two
\* enrichment streams, without submissions
EnrichNext ==
    \/ handleAddPurchase
    \/ handleFileChange
    \/ ReaderLoadEnd
    \/ handleProcess
    \/ \E extractedData \in IntakeResults : AnalyzeReceiptResolves(extractedData)
    \/ AnalyzeReceiptFails
    \/ \E k \in 1..MaxIntakes, normalized \in {Null, Def(NormalizedItem)} :
          NormalizeResolves(k, normalized)
    \/ \E k \in 1..MaxIntakes : NormalizeRejects(k)
    \/ \E k \in 1..MaxIntakes, update \in ProgressUpdates : OnSearchProgress(k, update)
    \/ \E k \in 1..MaxIntakes, marketPrice \in MarketPrices :
          SearchResolves(k, marketPrice)
    \/ \E k \in 1..MaxIntakes : SearchFails(k)
    \/ \E k \in 1..MaxIntakes, commitments \in Commitments :
          ExtractCommitmentsResolves(k, commitments)
    \/ \E k \in 1..MaxIntakes : ExtractCommitmentsRejects(k)
    \/ reset
    \/ \E tab \in NavTabs : onTabChange(tab)

EnrichSpec == IntakeInit /\ [][EnrichNext]_vars

\* a continuation of one of the two enrichment streams
EnrichmentStep ==
    \/ \E k \in 1..MaxIntakes, normalized \in {Null, Def(NormalizedItem)} :
          NormalizeResolves(k, normalized)
    \/ \E k \in 1..MaxIntakes : NormalizeRejects(k)
    \/ \E k \in 1..MaxIntakes, update \in ProgressUpdates : OnSearchProgress(k, update)
    \/ \E k \in 1..MaxIntakes, marketPrice \in MarketPrices :
          SearchResolves(k, marketPrice)
    \/ \E k \in 1..MaxIntakes : SearchFails(k)
    \/ \E k \in 1..MaxIntakes, commitments \in Commitments :
          ExtractCommitmentsResolves(k, commitments)
    \/ \E k \in 1..MaxIntakes : ExtractCommitmentsRejects(k)

\* Confirm next to the enrichment: the staged result is submitted while the
\* streams of handleProcess run
ConfirmNext ==
    \/ handleAddPurchase
    \/ handleFileChange
    \/ ReaderLoadEnd
    \/ handleProcess
    \/ \E extractedData \in IntakeResults : AnalyzeReceiptResolves(extractedData)
    \/ AnalyzeReceiptFails
    \/ EnrichmentStep
    \/ handleConfirm
    \/ reset
    \/ \E tab \in NavTabs : onTabChange(tab)

ConfirmSpec == IntakeInit /\ [][ConfirmNext]_vars

\* a reviewer is signed in; the first snapshot has not been delivered
PersistInit ==
    /\ currentUser = Def(Reviewer)
    /\ purchases = <<>>
    /\ usingMockData = FALSE
    /\ activeTab = "dashboard"
    /\ reviewingId = Null
    /\ isAdding = FALSE
    /\ store \in IntakeStores
    /\ updateCalls = <<>>
    /\ ReviewInitial
    /\ result = Null
    /\ duplicateMatches = <<>>
    /\ scored = <<>>
    /\ rendered = FALSE
    /\ UploadInitial
    /\ NoSubmission
    /\ lastEvent = "other"

\* the two persistence paths side by side: a review decision with its
\* updateDoc, an intake with its addDoc, and the listener
PersistNext ==
    \/ \E id \in Ids(purchases) : handleReview(id)
    \/ \E status \in {"VALIDATED"} : handleAction(status)
    \/ \E k \in 1..MaxInflight : UpdateDocResolves(k)
    \/ \E k \in 1..MaxInflight : UpdateDocRejects(k)
    \/ onBack
    \/ handleAddPurchase
    \/ handleFileChange
    \/ ReaderLoadEnd
    \/ handleProcess
    \/ \E extractedData \in {Extraction(Undefined, Undefined)} :
          AnalyzeReceiptResolves(extractedData)
    \/ handleConfirm
    \/ \E k \in 1..MaxSubmissions : UploadReceiptImageResolves(k)
    \/ \E k \in 1..MaxSubmissions : AddDocResolves(k)
    \/ \E k \in 1..MaxSubmissions : AddDocRejects(k)
    \/ OnSnapshot
    \/ OnSnapshotError

PersistSpec == PersistInit /\ [][PersistNext]_vars

\* amounts an extraction can carry: a refund, zero, and an ordinary amount
ExtractedAmounts == {-500, 0, 10000}

AmountResults ==
    {[Extraction(Undefined, Undefined) EXCEPT !.amount = a] : a \in ExtractedAmounts}

\* the submission path over extractions of every amount
AmountNext ==
    \/ handleAddPurchase
    \/ handleFileChange
    \/ ReaderLoadEnd
    \/ handleProcess
    \/ \E extractedData \in AmountResults : AnalyzeReceiptResolves(extractedData)
    \/ handleConfirm
    \/ handleCancelSubmission
    \/ handleForceSubmit
    \/ reset
    \/ \E k \in 1..MaxSubmissions : UploadReceiptImageResolves(k)
    \/ \E k \in 1..MaxSubmissions : AddDocResolves(k)
    \/ OnSnapshot

AmountSpec == IntakeInit /\ [][AmountNext]_vars

\* receipts of two amounts, one below and one above both market prices
SavingsResults ==
    {[Extraction(Undefined, Undefined) EXCEPT !.amount = a] : a \in {10000, 20000}}

\* the enrichment path over receipts of different amounts
SavingsNext ==
    \/ handleAddPurchase
    \/ handleFileChange
    \/ ReaderLoadEnd
    \/ handleProcess
    \/ \E extractedData \in SavingsResults : AnalyzeReceiptResolves(extractedData)
    \/ AnalyzeReceiptFails
    \/ EnrichmentStep
    \/ reset
    \/ \E tab \in NavTabs : onTabChange(tab)

SavingsSpec == IntakeInit /\ [][SavingsNext]_vars

\* every path that touches a record, without failures: review decisions with
\* their updateDoc, one intake with its enrichment and its addDoc, the listener
WriterNext ==
    \/ \E id \in Ids(purchases) : handleReview(id)
    \/ \E status \in {"VALIDATED"} : handleAction(status)
    \/ openRejectModal
    \/ \E flagType \in RejectionTags : toggleRejectionFlag(flagType)
    \/ handleReject
    \/ \E k \in 1..MaxInflight : UpdateDocResolves(k)
    \/ handleAddPurchase
    \/ handleFileChange
    \/ ReaderLoadEnd
    \/ handleProcess
    \/ /\ intake = 0
       /\ AnalyzeReceiptResolves(Extraction(Undefined, Undefined))
    \/ \E k \in 1..MaxIntakes : NormalizeResolves(k, Def(NormalizedItem))
    \/ \E k \in 1..MaxIntakes :
          SearchResolves(k, Def([averagePrice |-> Def(8000), sources |-> <<"s">>]))
    \/ handleConfirm
    \/ \E k \in 1..MaxSubmissions : UploadReceiptImageResolves(k)
    \/ \E k \in 1..MaxSubmissions : AddDocResolves(k)
    \/ OnSnapshot

WriterSpec == PersistInit /\ [][WriterNext]_vars

----------------------------------------------------------------------------
(* Review queue: ReviewQueue.tsx, filteredPurchases *)

QueueTabs == {"priority", "standard", "history"}

\* p.amount > 5000, in cents
HighValueCents == 500000

\* variant: the standard tab without the exclusion of high-value records
TabFilter_StandardAllPending(p, tab) ==
    IF tab = "priority"
    THEN p.status = Def("FLAGGED")
         \/ (p.amount > HighValueCents /\ p.status = Def("PENDING"))
    ELSE IF tab = "standard"
    THEN p.status = Def("PENDING")
    ELSE p.status \in {Def("VALIDATED"), Def("RESOLVED"), Def("REJECTED")}

\* 1. Tab Filter: the record passes the filter of the tab
TabFilter(p, tab) ==
    IF tab = "priority"
    THEN p.status = Def("FLAGGED")
         \/ (p.amount > HighValueCents /\ p.status = Def("PENDING"))
    ELSE IF tab = "standard"
    THEN p.status = Def("PENDING") /\ ~(p.amount > HighValueCents)
    ELSE p.status \in {Def("VALIDATED"), Def("RESOLVED"), Def("REJECTED")}

\* purchases.filter(...) with searchQuery '' and departmentFilter 'all'
RECURSIVE FilterTab(_, _)
FilterTab(list, tab) ==
    IF list = <<>> THEN <<>>
    ELSE (IF TabFilter(Head(list), tab) THEN <<Head(list)>> ELSE <<>>)
         \o FilterTab(Tail(list), tab)

\* 4. Sort, default order date-desc: the comparator is negative when a goes
\* first
RECURSIVE InsertByDate(_, _)
InsertByDate(sorted, p) ==
    IF sorted = <<>> THEN <<p>>
    ELSE IF Head(sorted).date - p.date < 0 THEN <<p>> \o sorted
    ELSE <<Head(sorted)>> \o InsertByDate(Tail(sorted), p)

RECURSIVE SortByDateDesc(_)
SortByDateDesc(list) ==
    IF list = <<>> THEN <<>>
    ELSE InsertByDate(SortByDateDesc(SubSeq(list, 1, Len(list) - 1)), list[Len(list)])

filteredPurchases(tab) == SortByDateDesc(FilterTab(purchases, tab))

\* the collection when the session starts: a record on either side of the
\* high-value limit in each status a record can have before review, and two
\* records of different dates
QueueDocument(i, status, amount, date) ==
    [StoredDocument(i, status) EXCEPT !.amount = amount, !.date = date]

QueueStores ==
    {<<QueueDocument(1, status, amount, 0)>> :
        status \in {"PENDING", "FLAGGED", "RESOLVED"},
        amount \in {HighValueCents, HighValueCents + 1}}
    \cup {<<QueueDocument(1, "PENDING", HighValueCents + 1, 2),
            QueueDocument(2, "PENDING", HighValueCents, 0)>>}

QueueInit ==
    /\ currentUser = Def(Reviewer)
    /\ purchases = <<>>
    /\ usingMockData = FALSE
    /\ activeTab = "dashboard"
    /\ reviewingId = Null
    /\ isAdding = FALSE
    /\ store \in QueueStores
    /\ updateCalls = <<>>
    /\ ReviewInitial
    /\ result = Null
    /\ duplicateMatches = <<>>
    /\ scored = <<>>
    /\ rendered = FALSE
    /\ UploadInitial
    /\ NoSubmission
    /\ lastEvent = "other"

\* the reviewer works through the queue
QueueNext ==
    \/ OnSnapshot
    \/ \E id \in Ids(purchases) : handleReview(id)
    \/ \E status \in {"VALIDATED"} : handleAction(status)
    \/ openRejectModal
    \/ \E flagType \in RejectionTags : toggleRejectionFlag(flagType)
    \/ handleReject
    \/ \E k \in 1..MaxInflight : UpdateDocResolves(k)
    \/ \E k \in 1..MaxInflight : UpdateDocRejects(k)
    \/ onBack

QueueSpec == QueueInit /\ [][QueueNext]_vars

----------------------------------------------------------------------------
(* Claims about the intake, checked under IntakeSpec *)

\* the status the specification gives a record created from a result
StatusForFlags(data) ==
    IF IsDefined(data.flags) /\ Val(data.flags) # <<>> THEN "FLAGGED" ELSE "PENDING"

StatusAgreesWithFlags(d) ==
    /\ d.status \in {Def("PENDING"), Def("FLAGGED")}
    /\ d.status = Def("FLAGGED") <=> d.flags # <<>>

IsTempRecord(d) == \E t \in 1..MaxSubmissions : d.id = TempId(t)

\* C4: handleUploadComplete creates every record with status FLAGGED when the
\* confirmed result has a non-empty flags list and with status PENDING when
\* the list is empty or missing: the temporary local record, the addDoc
\* payload and the stored document; no record has any other status.
C4_StatusFromFlags ==
    /\ [](/\ \A i \in DOMAIN purchases : StatusAgreesWithFlags(purchases[i])
          /\ \A i \in DOMAIN store : StatusAgreesWithFlags(store[i])
          /\ \A k \in DOMAIN addCalls : StatusAgreesWithFlags(addCalls[k].payload))
    /\ [][\A k \in DOMAIN uploadCalls :
             (UploadReceiptImageResolves(k) \/ UploadReceiptImageRejects(k)) =>
                /\ Head(purchases').status =
                      Def(StatusForFlags(uploadCalls[k].data))
                /\ addCalls'[Len(addCalls')].payload.status =
                      Def(StatusForFlags(uploadCalls[k].data))]_vars
    /\ [][((handleConfirm \/ handleForceSubmit)
              /\ Len(purchases') = Len(purchases) + 1) =>
             Head(purchases').status = Def(StatusForFlags(Val(result)))]_vars
    /\ [][\A k \in DOMAIN addCalls :
             AddDocResolves(k) =>
                \E i \in DOMAIN store' :
                   /\ store'[i].id \notin Ids(store)
                   /\ store'[i].status = addCalls[k].payload.status
                   /\ store'[i].flags = addCalls[k].payload.flags]_vars

\* a flagged result has been stored as FLAGGED, and a result without a flags
\* list, still staged, has been given a temporary PENDING record
C4_Witness ==
    /\ \E i \in DOMAIN store :
          /\ store[i].id # DocId(1)
          /\ store[i].status = Def("FLAGGED")
          /\ store[i].flags # <<>>
    /\ IsDefined(result)
    /\ ~IsDefined(Val(result).flags)
    /\ \E j \in DOMAIN purchases :
          /\ IsTempRecord(purchases[j])
          /\ purchases[j].status = Def("PENDING")

\* the number of onComplete invocations for intake n
Confirmations(n) == Cardinality({k \in DOMAIN confirmed : confirmed[k] = n})

UploadPending(n) == \E k \in DOMAIN uploadCalls : uploadCalls[k].intake = n

\* C10: no addDoc is issued for an intake the user has not confirmed; for one
\* confirmed intake never more than one addDoc is issued, and exactly one
\* once its image uploads are over, however confirm and submit-anyway events
\* interleave with the pending upload and addDoc calls.
C10_CreatedExactlyOnce ==
    \A n \in DOMAIN createRecords :
        /\ createRecords[n] > 0 => Confirmations(n) > 0
        /\ createRecords[n] <= 1
        /\ (Confirmations(n) > 0 /\ ~UploadPending(n)) => createRecords[n] = 1

\* an onComplete invocation: handleUploadComplete has been entered
OnCompleteInvoked == Len(confirmed') = Len(confirmed) + 1

\* C11: while duplicateMatches is non-empty for the staged result, onComplete
\* is invoked only with the duplicate warning shown for that result; a
\* Confirm with matches and no warning only sets the warning and submits
\* nothing; Cancel clears the warning, so that the next Confirm prompts again.
C11_DuplicateGate ==
    /\ [][(OnCompleteInvoked /\ Len(CurrentMatches) > 0) => WarningShown]_vars
    /\ [][result' # result => ~showDuplicateWarning']_vars
    /\ [][(~showDuplicateWarning /\ showDuplicateWarning') =>
             /\ IsDefined(result) /\ Len(CurrentMatches) > 0
             /\ result' = result
             /\ ~OnCompleteInvoked]_vars
    /\ [][(handleConfirm /\ IsDefined(result) /\ IsDefined(preview)
              /\ Len(CurrentMatches) > 0 /\ ~showDuplicateWarning) =>
             /\ showDuplicateWarning'
             /\ UNCHANGED <<result, purchases, store, callVars, historyVars,
                            isAdding, activeTab>>]_vars
    /\ [][handleCancelSubmission =>
             /\ ~showDuplicateWarning'
             /\ UNCHANGED <<result, purchases, store, callVars, historyVars>>]_vars

\* the warning is shown for a staged result with matches, nothing has been
\* submitted
C11_Witness ==
    /\ UploadMounted
    /\ WarningShown
    /\ IsDefined(preview)
    /\ confirmed = <<>>
    /\ uploadCalls = <<>>

\* the record handleUploadComplete builds for the staged result is the
\* submission entered in this step
SubmitsCurrentResult ==
    /\ OnCompleteInvoked
    /\ confirmed'[Len(confirmed')] = intake
    /\ IF usingMockData
       THEN /\ Len(purchases') = Len(purchases) + 1
            /\ Head(purchases') =
                  [NewPurchase(Val(result), "") EXCEPT !.id = TempId(now)]
       ELSE /\ Len(uploadCalls') = Len(uploadCalls) + 1
            /\ uploadCalls'[Len(uploadCalls')].data = Val(result)
            /\ uploadCalls'[Len(uploadCalls')].imageData = Val(preview)

\* C12: handleForceSubmit invokes onComplete with the staged result in the
\* same step, for every match list the warning is shown with, and without
\* prompting again.
C12_ForceSubmitImmediate ==
    [][handleForceSubmit =>
          /\ IsDefined(result) /\ IsDefined(preview)
          /\ SubmitsCurrentResult
          /\ UNCHANGED <<store, addCalls, intake>>]_vars

\* Submit Anyway has just been clicked with a match of score 100 in the list
C12_Witness ==
    /\ lastEvent = "handleForceSubmit"
    /\ Len(confirmed) > 0
    /\ IsDefined(result)
    /\ Len(CurrentMatches) > 0
    /\ CurrentMatches[1].score = 100
    /\ uploadCalls # <<>>
    /\ uploadCalls[Len(uploadCalls)].data = Val(result)

\* the Scan button: shown without a result, enabled with a preview and no
\* analysis in flight
ScanEnabled == UploadMounted /\ IsDefined(preview) /\ ~IsDefined(result) /\ ~isProcessing

\* C13: a failed analysis leaves result null, sets isProcessing to false
\* (Scan is enabled again when the preview is still there), starts no
\* enrichment stream and submits nothing; while result is null no onComplete
\* invocation happens, and result only becomes non-null by a successful
\* analysis.
C13_FailedAnalysis ==
    /\ [][AnalyzeReceiptFails =>
             /\ ~IsDefined(result) /\ ~IsDefined(result')
             /\ ~isProcessing'
             /\ (IsDefined(preview) => ScanEnabled')
             /\ UNCHANGED <<priceStreams, commitmentStreams, priceIntelligence,
                            commitmentData, priceSearching>>
             /\ UNCHANGED <<purchases, store, callVars, historyVars>>]_vars
    /\ [][OnCompleteInvoked => IsDefined(result)]_vars
    /\ [][(~IsDefined(result) /\ IsDefined(result')) =>
             /\ isProcessing
             /\ intake' = intake + 1
             /\ Len(priceStreams') = Len(priceStreams) + 1]_vars
    /\ [](isProcessing => ~IsDefined(result))

\* an analysis has just failed with the preview still shown: Scan is enabled
C13_Witness ==
    /\ lastEvent = "analyzeReceiptFailed"
    /\ ScanEnabled
    /\ ~IsDefined(result)
    /\ confirmed = <<>>

\* Confirm is shown and passes its checks: a result and a preview are staged
\* and the duplicate gate is open
ConfirmReady ==
    /\ UploadMounted
    /\ IsDefined(result) /\ IsDefined(preview)
    /\ Len(CurrentMatches) = 0 \/ showDuplicateWarning
    /\ Len(confirmed) < MaxSubmissions

\* C14: with a staged result Confirm submits it whatever the two enrichment
\* streams are doing, and no continuation of an enrichment stream changes the
\* staged result, the duplicate gate or anything that has been submitted.
C14_EnrichmentIndependent ==
    /\ [](ConfirmReady => ENABLED (handleConfirm /\ SubmitsCurrentResult))
    /\ [][(handleConfirm /\ ConfirmReady) =>
             /\ SubmitsCurrentResult
             /\ UNCHANGED <<result, priceIntelligence, commitmentData,
                            priceStreams, commitmentStreams>>]_vars
    /\ [][EnrichmentStep =>
             UNCHANGED <<result, preview, isProcessing, showDuplicateWarning,
                         duplicateMatches, purchases, store, usingMockData,
                         callVars, historyVars>>]_vars

\* a result was submitted while its price search was running and its
\* commitment extraction was pending
C14_Witness ==
    /\ IsDefined(result)
    /\ priceSearching
    /\ \E k \in DOMAIN priceStreams :
          priceStreams[k].pc = "search" /\ priceStreams[k].data = Val(result)
    /\ commitmentStreams # <<>>
    /\ uploadCalls # <<>>
    /\ uploadCalls[Len(uploadCalls)].data = Val(result)
    /\ uploadCalls[Len(uploadCalls)].intake = intake

\* the price intelligence the fallback is to give a failed search of stream k
FallbackShown(k) ==
    LET data == priceStreams[k].data
    IN  /\ IsDefined(priceIntelligence')
        /\ Val(priceIntelligence').stateAverage = data.marketPriceEstimate
        /\ Val(priceIntelligence').savingsOpportunity =
              SavingsOpportunity(data.amount, Val(data.marketPriceEstimate))

\* C15: when the market-price search of a normalized item fails and the
\* extraction carries a marketPriceEstimate, price intelligence gets
\* stateAverage = marketPriceEstimate and savingsOpportunity = amount -
\* marketPriceEstimate when positive; without an estimate no stateAverage is
\* set.
C15_PriceFallback ==
    [][\A k \in 1..MaxIntakes :
          SearchFails(k) =>
             IF IsDefined(priceStreams[k].data.marketPriceEstimate)
             THEN FallbackShown(k)
             ELSE \/ ~IsDefined(priceIntelligence')
                  \/ priceIntelligence' = priceIntelligence]_vars

\* a local record that carries a change the store does not have: a temporary
\* record of handleUploadComplete, or a decision of handleAction that the
\* stored document does not show
LocalOnlyChange(p) ==
    \/ IsTempRecord(p) /\ ~\E i \in DOMAIN store : [store[i] EXCEPT !.id = p.id] = p
    \/ \E i \in DOMAIN store :
          /\ store[i].id = p.id
          /\ p.status = Def("VALIDATED")
          /\ store[i].status # Def("VALIDATED")

\* the addDoc or updateDoc call of that change has not returned yet
PersistencePending(p) ==
    \/ \E k \in DOMAIN addCalls : [addCalls[k].payload EXCEPT !.id = p.id] = p
    \/ \E k \in DOMAIN updateCalls : updateCalls[k].id = p.id

\* C16: a failed updateDoc or addDoc leaves the application in sandbox mode;
\* sandbox mode is only left by a step that replaces the local list with the
\* snapshot (or empties it); so while usingMockData is false every local
\* change the store does not have still has its call in flight.
C16_FailureIsFlaggedOrRolledBack ==
    /\ [][(\E k \in 1..MaxInflight : UpdateDocRejects(k)) => usingMockData']_vars
    /\ [][(\E k \in 1..MaxSubmissions : AddDocRejects(k)) => usingMockData']_vars
    /\ [][(usingMockData /\ ~usingMockData') =>
             \/ purchases' = store'
             \/ purchases' = <<>>]_vars
    /\ [](~usingMockData =>
             \A i \in DOMAIN purchases :
                LocalOnlyChange(purchases[i]) => PersistencePending(purchases[i]))

\* addDoc has just failed: the temporary record is in the local list, the
\* store does not have it, and the sandbox flag is set
C16_Witness ==
    /\ lastEvent = "addDocFailed"
    /\ usingMockData
    /\ \E i \in DOMAIN purchases :
          LocalOnlyChange(purchases[i]) /\ ~PersistencePending(purchases[i])

\* the fields of a record a review decision writes
ReviewFields(d) ==
    [f \in {"id", "status"} \cup RejectionFields |-> d[f]]

\* C17: the snapshot callback makes the local list exactly the records of the
\* snapshot, in its order, with their ids, statuses and rejection fields: no
\* temporary record and no local-only edit stays, and usingMockData is false.
C17_SnapshotReplacesCache ==
    [][OnSnapshot =>
          /\ Len(purchases') = Len(store)
          /\ \A i \in DOMAIN store :
                ReviewFields(purchases'[i]) = ReviewFields(store[i])
          /\ \A i \in DOMAIN purchases' :
                ~IsTempRecord(purchases'[i]) /\ ~LocalOnlyChange(purchases'[i])
          /\ ~usingMockData']_vars

\* a snapshot has just been delivered while an addDoc was in flight and its
\* temporary record was in the list: the list is the store's again
C17_Witness ==
    /\ lastEvent = "onSnapshot"
    /\ addCalls # <<>>
    /\ Len(store) > 0
    /\ purchases = store
    /\ ~usingMockData

\* a continuation of price stream k
PriceStep(k) ==
    \/ \E normalized \in {Null, Def(NormalizedItem)} : NormalizeResolves(k, normalized)
    \/ NormalizeRejects(k)
    \/ \E update \in ProgressUpdates : OnSearchProgress(k, update)
    \/ \E marketPrice \in MarketPrices : SearchResolves(k, marketPrice)
    \/ SearchFails(k)

\* a continuation of commitment stream k
CommitmentStep(k) ==
    \/ \E commitments \in Commitments : ExtractCommitmentsResolves(k, commitments)
    \/ ExtractCommitmentsRejects(k)

\* the intake a stream was started for is not the one staged now
Discarded(n) == ~IsDefined(result) \/ n # intake

enrichmentShown == <<priceIntelligence, commitmentData, priceSearching, searchProgress>>

\* C18: a continuation of an enrichment stream whose intake was discarded by
\* reset() changes none of priceIntelligence, commitmentData, priceSearching
\* and searchProgress, also when a new receipt has been processed since.
C18_DiscardedIntakeDoesNotLeak ==
    /\ [][\A k \in 1..MaxIntakes :
             (/\ k \in DOMAIN priceStreams
              /\ Discarded(priceStreams[k].intake)
              /\ PriceStep(k)) => UNCHANGED enrichmentShown]_vars
    /\ [][\A k \in 1..MaxIntakes :
             (/\ k \in DOMAIN commitmentStreams
              /\ Discarded(commitmentStreams[k].intake)
              /\ CommitmentStep(k)) => UNCHANGED enrichmentShown]_vars

\* C19: every record handleUploadComplete creates has an amount >= 0,
\* whatever amount the extraction carried: the temporary local record, the
\* addDoc payload and the stored document.
C19_AmountNonNegative ==
    /\ \A i \in DOMAIN purchases : purchases[i].amount >= 0
    /\ \A k \in DOMAIN addCalls : addCalls[k].payload.amount >= 0
    /\ \A i \in DOMAIN store : store[i].amount >= 0

\* the place of a record in the existing-records list
PositionOf(id) == CHOOSE i \in DOMAIN purchases : purchases[i].id = id

\* C20: duplicateMatches is in non-increasing order of score, and entries of
\* equal score are in the order their records have in the existing-records
\* list.
C20_SortedByScoreStable ==
    rendered =>
       \A i, j \in DOMAIN duplicateMatches :
          i < j =>
             /\ duplicateMatches[i].score >= duplicateMatches[j].score
             /\ duplicateMatches[i].score = duplicateMatches[j].score =>
                   PositionOf(duplicateMatches[i].purchase.id)
                      < PositionOf(duplicateMatches[j].purchase.id)

\* two matches of equal score in list order, and two matches that the sort
\* had to swap, are both among the rendered lists; this is the first kind
C20_Witness ==
    /\ rendered
    /\ Len(duplicateMatches) = 2
    /\ duplicateMatches[1].score = duplicateMatches[2].score
    /\ duplicateMatches[1].purchase = purchases[1]
    /\ duplicateMatches[2].purchase = purchases[2]

C22_SavingsFromAmount ==
    (IsDefined(result) /\ IsDefined(priceIntelligence)) =>
       LET shown == Val(priceIntelligence)
           amount == Val(result).amount
       IN  /\ IsDefined(shown.savingsOpportunity) =>
                /\ IsDefined(shown.stateAverage)
                /\ Val(shown.savingsOpportunity) = amount - Val(shown.stateAverage)
                /\ Val(shown.savingsOpportunity) > 0
           /\ (IsDefined(shown.stateAverage) /\ amount <= Val(shown.stateAverage)) =>
                ~IsDefined(shown.savingsOpportunity)

\* the payload is the partial update without its undefined fields
IsCleaned(payload, updates) ==
    /\ DOMAIN payload \subseteq DOMAIN updates
    /\ \A f \in DOMAIN updates :
          IF updates[f] # Undefined
          THEN f \in DOMAIN payload /\ payload[f] = updates[f]
          ELSE f \notin DOMAIN payload

\* C23: no updateDoc call carries a field whose value is undefined; the call
\* handleReject issues has every defined field of its update with the value
\* unchanged and leaves out rejectionNotes when no notes were entered, and the
\* call of handleAction carries the status.
C23_NoUndefinedInPayload ==
    /\ [](\A k \in DOMAIN updateCalls :
             \A f \in DOMAIN updateCalls[k].payload :
                updateCalls[k].payload[f] # Undefined)
    /\ [][(handleReject /\ Len(updateCalls') = Len(updateCalls) + 1) =>
             IsCleaned(updateCalls'[Len(updateCalls')].payload, RejectUpdates)]_vars
    /\ [][\A status \in {"VALIDATED"} :
             (handleAction(status) /\ Len(updateCalls') = Len(updateCalls) + 1) =>
                IsCleaned(updateCalls'[Len(updateCalls')].payload,
                          [status |-> Def(status)])]_vars

\* a rejection without notes is in flight: its payload has no rejectionNotes
C23_Witness ==
    /\ updateCalls # <<>>
    /\ updateCalls[1].payload.status = Def("REJECTED")
    /\ "rejectionNotes" \notin DOMAIN updateCalls[1].payload
    /\ "rejectionFlags" \in DOMAIN updateCalls[1].payload

\* the flags of every record of the list are what they were
FlagsKept(before, after) ==
    /\ Len(after) = Len(before)
    /\ \A i \in DOMAIN before :
          after[i].id = before[i].id /\ after[i].flags = before[i].flags

\* C24: an approve or a reject leaves the flags of every record as they were,
\* in the local list, in the updateDoc payload and in the store; the selected
\* rejection tags are written to rejectionFlags only.
C24_ReviewKeepsFlags ==
    /\ [][(handleReject \/ \E status \in {"VALIDATED"} : handleAction(status)) =>
             FlagsKept(purchases, purchases') /\ FlagsKept(store, store')]_vars
    /\ [][(\E k \in 1..MaxInflight : UpdateDocResolves(k)) =>
             FlagsKept(store, store')]_vars
    /\ [](\A k \in DOMAIN updateCalls : "flags" \notin DOMAIN updateCalls[k].payload)
    /\ [][(handleReject /\ Len(selectedRejectionFlags) # 0 /\ isReviewer) =>
             ActivePurchase'.rejectionFlags = Def(selectedRejectionFlags)]_vars

\* a flagged record has been rejected with a tag and the rejection is stored:
\* the intake flag is there alone, the tag is in rejectionFlags
C24_Witness ==
    \E i \in DOMAIN store :
       /\ store[i].status = Def("REJECTED")
       /\ store[i].flags = <<"PRICE_ANOMALY">>
       /\ store[i].rejectionFlags = Def(<<"WASTE">>)
       /\ i \in DOMAIN purchases
       /\ purchases[i] = store[i]

\* the price streams whose search has been issued
Searching == {k \in DOMAIN priceStreams : priceStreams[k].pc = "search"}

\* C25: the enrichment calls are issued by the step in which analyzeReceipt
\* succeeds, for the result it staged, and by no other step: not by Scan, not
\* while the analysis is pending, not when it fails; a price search is issued
\* only by a normalization that returned an item.
C25_EnrichmentAfterAnalysis ==
    /\ [][(\/ Len(priceStreams') > Len(priceStreams)
           \/ Len(commitmentStreams') > Len(commitmentStreams)) =>
             /\ isProcessing /\ ~isProcessing'
             /\ IsDefined(result')
             /\ intake' = intake + 1
             /\ priceStreams' =
                   Append(priceStreams, [pc |-> "normalize", data |-> Val(result'),
                                         intake |-> intake'])
             /\ commitmentStreams' =
                   Append(commitmentStreams,
                          [data |-> Val(result'), intake |-> intake'])]_vars
    /\ [][(handleProcess \/ AnalyzeReceiptFails) =>
             UNCHANGED <<priceStreams, commitmentStreams>>]_vars
    /\ [](isProcessing =>
             /\ \A k \in DOMAIN priceStreams : priceStreams[k].intake <= intake
             /\ \A k \in DOMAIN commitmentStreams :
                   commitmentStreams[k].intake <= intake)
    /\ [][Cardinality(Searching') > Cardinality(Searching) =>
             \E k \in DOMAIN priceStreams :
                /\ priceStreams[k].pc = "normalize"
                /\ NormalizeResolves(k, Def(NormalizedItem))]_vars
    /\ [][\A k \in 1..MaxIntakes :
             NormalizeResolves(k, Null) =>
                Cardinality(Searching') = Cardinality(Searching)]_vars

\* the analysis has succeeded, the normalization has returned an item and the
\* search of the staged receipt runs next to its commitment extraction
C25_Witness ==
    /\ IsDefined(result)
    /\ ~isProcessing
    /\ \E k \in Searching :
          /\ priceStreams[k].data = Val(result)
          /\ priceStreams[k].intake = intake
          /\ priceStreams[k].normalized = NormalizedItem
    /\ \E k \in DOMAIN commitmentStreams : commitmentStreams[k].intake = intake

\* C26: both streams are started by the same step and neither waits for the
\* other: a pending commitment extraction can complete and set commitmentData,
\* and a pending normalization or search can complete and set price
\* intelligence, whatever the other stream is doing; a step of one stream
\* changes nothing of the other.
C26_StreamsIndependent ==
    /\ [](UploadMounted =>
             /\ \A k \in DOMAIN commitmentStreams :
                   \A c \in Commitments \ {Null} :
                      ENABLED (ExtractCommitmentsResolves(k, c) /\ commitmentData' = c)
             /\ \A k \in DOMAIN priceStreams :
                   ENABLED (/\ PriceStep(k)
                            /\ IsDefined(priceIntelligence')
                            /\ priceStreams[k].pc = "search" =>
                                  IsDefined(Val(priceIntelligence').stateAverage)))
    /\ [][Len(priceStreams') > Len(priceStreams) <=>
             Len(commitmentStreams') > Len(commitmentStreams)]_vars
    /\ [][(\E k \in 1..MaxIntakes : CommitmentStep(k)) =>
             UNCHANGED <<priceIntelligence, priceSearching, searchProgress,
                         priceStreams>>]_vars
    /\ [][(\E k \in 1..MaxIntakes : PriceStep(k)) =>
             UNCHANGED <<commitmentData, commitmentStreams>>]_vars

\* the commitment extraction of the staged receipt has set commitmentData
\* while the normalization of the same receipt is pending
C26_Witness ==
    /\ IsDefined(result)
    /\ IsDefined(commitmentData)
    /\ ~IsDefined(priceIntelligence)
    /\ \A k \in DOMAIN commitmentStreams : commitmentStreams[k].intake # intake
    /\ \E k \in DOMAIN priceStreams :
          priceStreams[k].intake = intake /\ priceStreams[k].pc = "normalize"

\* the record of the list with this id
RecordOf(list, id) == list[CHOOSE i \in DOMAIN list : list[i].id = id]

\* the ids of the records whose status or rejection fields differ
Rewritten(before, after) ==
    {id \in Ids(before) \cap Ids(after) :
        ReviewFields(RecordOf(after, id)) # ReviewFields(RecordOf(before, id))}

ReviewDecision == handleReject \/ \E status \in {"VALIDATED"} : handleAction(status)

\* C27: the status and the rejection fields of a stored record change only
\* when the updateDoc of a reviewer's approve or reject is applied, and those
\* of a local record only in handleAction or handleReject (or when the
\* listener delivers the stored record); the submission, the scorer and the
\* enrichment change neither; a decision assigns VALIDATED or REJECTED only.
C27_SingleWriter ==
    /\ [][\A id \in Rewritten(store, store') :
             \E k \in DOMAIN updateCalls :
                /\ UpdateDocResolves(k)
                /\ updateCalls[k].id = id
                /\ updateCalls[k].by = "REVIEWER"]_vars
    /\ [][Ids(store) \subseteq Ids(store')]_vars
    /\ [][Rewritten(purchases, purchases') # {} =>
             \/ ReviewDecision /\ Rewritten(purchases, purchases') = {Val(reviewingId)}
             \/ OnSnapshot]_vars
    /\ [][(\/ handleConfirm
           \/ \E k \in 1..MaxSubmissions :
                 UploadReceiptImageResolves(k) \/ AddDocResolves(k)
           \/ EnrichmentStep
           \/ handleProcess) =>
             Rewritten(purchases, purchases') = {} /\ Rewritten(store, store') = {}]_vars
    /\ [](\A k \in DOMAIN updateCalls :
             updateCalls[k].payload.status \in {Def("VALIDATED"), Def("REJECTED")})
    /\ [][ReviewDecision =>
             \A id \in Rewritten(purchases, purchases') :
                RecordOf(purchases', id).status
                   \in {Def("VALIDATED"), Def("REJECTED")}]_vars

\* the stored record has been rejected by the reviewer, and the intake that
\* was submitted and stored next to it has the status it was created with
C27_Witness ==
    /\ Len(store) = 2
    /\ RecordOf(store, DocId(1)).status = Def("REJECTED")
    /\ RecordOf(store, DocId(1)).rejectedBy = Def(Reviewer.name)
    /\ RecordOf(store, DocId(2)).status = Def("PENDING")
    /\ RecordOf(store, DocId(2)).rejectedBy = Undefined
    /\ purchases = store

\* no persistence call is issued by the step
NoCallIssued ==
    /\ Len(updateCalls') <= Len(updateCalls)
    /\ Len(addCalls') <= Len(addCalls)
    /\ Len(uploadCalls') <= Len(uploadCalls)

\* C28: while usingMockData is true no updateDoc, addDoc or image-upload call
\* is issued, and a review decision or a submission made in sandbox mode
\* changes the local list only: the store and the calls in flight stay.
C28_SandboxIsLocalOnly ==
    /\ [][usingMockData => NoCallIssued]_vars
    /\ [][(usingMockData /\ (ReviewDecision \/ handleConfirm)) =>
             /\ store' = store
             /\ UNCHANGED <<updateCalls, addCalls, uploadCalls>>]_vars

\* the number of checks of the scorer that matched for the pair
ChecksMatched(purchase, res) ==
    (IF VendorMatches(purchase, res) THEN 1 ELSE 0)
    + (IF AmountMatches(purchase, res) THEN 1 ELSE 0)
    + (IF DateMatches(purchase, res) THEN 1 ELSE 0)

\* C29: the score of every pair is one of 0, 30, 40, 60, 70, 100; it is >= 60
\* if and only if at least two checks matched, so score >= 60 and
\* reasons.length >= 2 are equivalent; the number of reasons is the number of
\* matched checks.
C29_ScoreValues ==
    rendered =>
       \A i \in DOMAIN scored :
          LET checks == ChecksMatched(purchases[i], Val(result))
          IN  /\ scored[i].score \in {0, 30, 40, 60, 70, 100}
              /\ scored[i].score >= ScoreThreshold <=> checks >= 2
              /\ Len(scored[i].reasons) = checks
              /\ scored[i].score >= ScoreThreshold <=>
                    Len(scored[i].reasons) >= MinReasons

\* the lowest score of two checks next to the highest score of one check
C29_Witness ==
    /\ rendered
    /\ Len(scored) = 2
    /\ scored[1].score = 60 /\ Len(scored[1].reasons) = 2
    /\ scored[2].score = 40 /\ Len(scored[2].reasons) = 1

\* the tabs whose list shows the record
TabsOf(p) == {tab \in QueueTabs : TabFilter(p, tab)}

Shown(tab) == {filteredPurchases(tab)[i].id : i \in DOMAIN filteredPurchases(tab)}

\* C30: with no search text and no department filter every record is in the
\* list of exactly one tab: priority for FLAGGED and for PENDING above 5000,
\* standard for PENDING up to 5000, history for VALIDATED, RESOLVED and
\* REJECTED; a record of priority or standard is in history after a step
\* exactly when the step changed its status, which only a review decision
\* (or the listener delivering one) does.
C30_TabsPartition ==
    /\ [](\A i \in DOMAIN purchases :
             LET p == purchases[i]
             IN  /\ Cardinality({tab \in QueueTabs : p.id \in Shown(tab)}) = 1
                 /\ p.id \in Shown("priority") <=>
                       \/ p.status = Def("FLAGGED")
                       \/ p.status = Def("PENDING") /\ p.amount > 500000
                 /\ p.id \in Shown("standard") <=>
                       p.status = Def("PENDING") /\ p.amount <= 500000
                 /\ p.id \in Shown("history") <=>
                       p.status \in {Def("VALIDATED"), Def("RESOLVED"),
                                     Def("REJECTED")})
    /\ [](\A tab \in QueueTabs : Len(filteredPurchases(tab)) = Cardinality(Shown(tab)))
    /\ [][\A id \in Ids(purchases) \cap Ids(purchases') :
             LET before == RecordOf(purchases, id)
                 after == RecordOf(purchases', id)
             IN  TabsOf(before) \subseteq {"priority", "standard"} =>
                    /\ TabsOf(after) = {"history"} <=> after.status # before.status
                    /\ after.status # before.status => ReviewDecision \/ OnSnapshot]_vars

\* a PENDING record above 5000, shown under priority before, has just been
\* approved and is shown under history; the record up to 5000 is under
\* standard
C30_Witness ==
    /\ lastEvent = "handleAction"
    /\ Len(purchases) = 2
    /\ Shown("history") = {DocId(1)}
    /\ RecordOf(purchases, DocId(1)).amount = HighValueCents + 1
    /\ RecordOf(purchases, DocId(1)).status = Def("VALIDATED")
    /\ Shown("standard") = {DocId(2)}
    /\ Shown("priority") = {}

====
